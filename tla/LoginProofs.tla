------------------------------- MODULE LoginProofs ------------------------------
(* What holds of a connection besides being in lockstep: that its login is    *)
(* settled by whom this server asks and by nobody else, and that at most one  *)
(* keep alive is on its way, and waited for.                                  *)
EXTENDS ConnectionProofs

-------------------------------------------------------------------------------
(* The inductive invariants.                                                  *)

\* No proxy that would have a say in the login is there to be asked.
NoProxy == ~(CanAskProxy /\ conf.peer \in {"modern", "impostor"})

\* Whose word a profile may be settled on, and what shows that it was given.
Settled(source) ==
  /\ source = Settler
  /\ CASE source = "mojang"  -> cipher
       [] source = "modern"  -> forwarded = "modern"
       [] source = "bungee"  -> forwarded = "bungee"
       [] source = "offline" -> forwarded = "nobody" /\ ~forwarding
       [] OTHER -> FALSE

\* Nobody vouches for a login that this server did not give it to, and nobody
\* encrypts but the player's own client, once the proxy had nothing to say.
VouchInv ==
  /\ forwarding => CanAskProxy /\ forwarded = "nobody"
  /\ forwarded = "modern" => CanAskProxy /\ conf.peer = "modern"
  /\ forwarded = "bungee" => ~conf.secret /\ ~conf.encryption /\ conf.peer = "bungee"
  /\ verifyToken \/ cipher => conf.encryption /\ NoProxy
  /\ cipher => conf.peer = "player"

\* The profile is settled before anything is sent on its strength, and what
\* comes back waits for a profile that is; what answers a question is what the
\* peer that was asked would answer it with.
ProfileInv ==
  /\ phase = "handshake" => profile = "none"
  /\ phase \in {"configuration", "play"} => Settled(profile)
  /\ phase = "login" /\ ~conf.secret /\ ~conf.encryption /\ conf.peer = "bungee" =>
       forwarded = "bungee"
  /\ Holds(toPeer, "LoginSuccess") => Settled(profile)
  /\ Holds(toPeer, "LoginPluginRequest") => CanAskProxy
  /\ Holds(toServer, "LoginAcknowledged") => Settled(profile)
  /\ Holds(toServer, "ForwardingSigned") => conf.peer = "modern"
  /\ Holds(toServer, "ForwardingUnknown") => conf.peer \notin {"modern", "impostor"}
  /\ \A t \in EncryptionAnswers : Holds(toServer, t) => conf.peer = "player"
  /\ Holds(toServer, "LoginStart") => forwarded # "modern"

\* A handler settles it on who vouches for it, and does so first.
SettlingInv ==
  \A i \in 1..Len(steps) :
    /\ Kind(steps, i) = "profile" => Settled(What(steps, i))
    /\ Kind(steps, i) = "phase" \/ steps[i] = Write("LoginSuccess") =>
         Settled(profile) \/ Kind(steps, 1) = "profile"
    /\ Kind(steps, i) = "encrypt" => conf.encryption /\ NoProxy
    /\ steps[i] = Write("LoginPluginRequest") => CanAskProxy

SettledInv == VouchInv /\ ProfileInv /\ SettlingInv /\ OnlineModeTruthful

\* At most one packet of a queue is a keep alive.
OneIn(w) == \A i, j \in 1..Len(w) : w[i].type = "KeepAlive" /\ w[j].type = "KeepAlive" => i = j

\* A keep alive under way is the one that is waited for.
KeepAliveInv ==
  /\ OneIn(toServer) /\ OneIn(toPeer)
  /\ Holds(toServer, "KeepAlive") => keepAlive /\ ~Holds(toPeer, "KeepAlive")
  /\ Holds(toPeer, "KeepAlive") => keepAlive

-------------------------------------------------------------------------------
(* Keep alives                                                                *)

\* A queue that grew by a packet has at most one keep alive, if that is not a second.
LEMMA GrownOne ==
  ASSUME NEW S, NEW w \in Seq(S), NEW p \in S, OneIn(w),
         p.type # "KeepAlive" \/ ~Holds(w, "KeepAlive")
  PROVE  OneIn(Append(w, p))
<1> DEFINE q == Append(w, p)
<1>1. /\ Len(w) \in Nat /\ Len(q) = Len(w) + 1
      /\ \A i \in 1..Len(w) : q[i] = w[i]
      /\ q[Len(w) + 1] = p
  BY Grown
<1> HIDE DEF q
<1>2. SUFFICES ASSUME NEW i \in 1..Len(q), NEW j \in 1..Len(q),
                      q[i].type = "KeepAlive", q[j].type = "KeepAlive"
               PROVE  i = j
  BY DEF OneIn, q
<1>3. \A k \in 1..Len(q) : k \in 1..Len(w) \/ k = Len(w) + 1
  BY <1>1
<1>4. CASE p.type # "KeepAlive"
  <2>1. i \in 1..Len(w) /\ j \in 1..Len(w)
    BY <1>1, <1>2, <1>3, <1>4
  <2>. QED BY <2>1, <1>1, <1>2 DEF OneIn
<1>5. CASE ~Holds(w, "KeepAlive")
  <2>1. i \notin 1..Len(w) /\ j \notin 1..Len(w)
    BY <1>1, <1>2, <1>5 DEF Holds
  <2>. QED BY <2>1, <1>3
<1>. QED BY <1>4, <1>5

\* One that lost its first has none left if that was one.
LEMMA RestOne ==
  ASSUME NEW S, NEW w \in Seq(S), w # <<>>, OneIn(w)
  PROVE  /\ OneIn(Tail(w))
         /\ w[1].type = "KeepAlive" => ~Holds(Tail(w), "KeepAlive")
<1> DEFINE r == Tail(w)
<1>1. /\ Len(w) \in Nat /\ Len(w) >= 1 /\ Len(r) = Len(w) - 1
      /\ \A i \in 1..Len(r) : i + 1 \in 1..Len(w) /\ r[i] = w[i + 1]
  BY Rest
<1> HIDE DEF r
<1>2. OneIn(r)
  <2> SUFFICES ASSUME NEW i \in 1..Len(r), NEW j \in 1..Len(r),
                      r[i].type = "KeepAlive", r[j].type = "KeepAlive"
               PROVE  i = j
    BY DEF OneIn
  <2>1. i + 1 \in 1..Len(w) /\ j + 1 \in 1..Len(w) /\ r[i] = w[i + 1] /\ r[j] = w[j + 1]
    BY <1>1
  <2>2. i + 1 = j + 1
    BY <2>1 DEF OneIn
  <2>. QED BY <2>2
<1>3. ASSUME w[1].type = "KeepAlive", NEW i \in 1..Len(r), r[i].type = "KeepAlive"
      PROVE  FALSE
  <2>1. 1 \in 1..Len(w) /\ i + 1 \in 1..Len(w) /\ w[i + 1].type = "KeepAlive" /\ 1 # i + 1
    BY <1>1, <1>3
  <2>. QED BY <2>1, <1>3 DEF OneIn
<1>. QED BY <1>2, <1>3 DEF Holds, r

\* A packet that is not one changes nothing about the keep alives of a queue.
LEMMA OtherGrown ==
  ASSUME NEW S, NEW w \in Seq(S), NEW p \in S, p.type # "KeepAlive", OneIn(w)
  PROVE  /\ OneIn(Append(w, p))
         /\ Holds(Append(w, p), "KeepAlive") <=> Holds(w, "KeepAlive")
  BY GrownOne, GrownHolds

\* What the server sends is a packet of the type it is sent as.
LEMMA Sent ==
  ASSUME LockstepInv, NEW t \in Written \cup {"SetCompression", "KeepAlive"}, Send(t)
  PROVE  \E p \in Packets : p.type = t /\ toPeer' = Append(toPeer, p)
                            /\ p.onlineMode = (t = "Login" /\ (conf.encryption \/ forwarded # "nobody"))
<1> DEFINE o == t = "Login" /\ (conf.encryption \/ forwarded # "nobody")
<1>1. /\ t \in PacketTypes /\ phase \in Phases /\ compression \in BOOLEAN
      /\ cipher \in BOOLEAN /\ o \in BOOLEAN
  BY Types DEF LockstepInv, PacketTypes, Written
<1>2. toPeer' = Append(toPeer, Packet(t, phase, compression, cipher, o))
  BY DEF Send
<1> HIDE DEF o
<1>3. /\ Packet(t, phase, compression, cipher, o) \in Packets
      /\ Packet(t, phase, compression, cipher, o).type = t
      /\ Packet(t, phase, compression, cipher, o).onlineMode = o
  BY <1>1 DEF Packet, Packets
<1>. QED BY <1>2, <1>3 DEF o

\* What the peer's answer is added to.
LEMMA Replied ==
  ASSUME LockstepInv, PeerAnswers, toServer' # toServer
  PROVE  \E a \in Answer(toPeer[1]) : \E r \in Packets :
           /\ r.type = a /\ toServer' = Append(toServer, r)
           /\ a \in EncryptionAnswers => conf.peer = "player"
<1> DEFINE p == toPeer[1]
<1>1. Head(toPeer) = p /\ p \in Packets
  BY Types, Rest DEF LockstepInv, PeerAnswers
<1> HIDE DEF p
<1>2. /\ PeerReads(p)
      /\ p.type = "EncryptionRequest" => conf.peer = "player"
      /\ \E a \in Answer(p) : Reply(<<a>>, peer, peerCipher)
      /\ peerCompress' = (peerCompress \/ p.type = "SetCompression")
  BY <1>1 DEF PeerAnswers
<1>3. PICK a \in Answer(p) : Reply(<<a>>, peer, peerCipher)
  BY <1>2
<1> DEFINE r == Packet(a, peer, peerCompress', peerCipher, FALSE)
<1>4. r.type = a /\ r \in Packets
  <2>1. a \in PacketTypes
    BY Answers DEF PacketTypes, EncryptionAnswers
  <2>2. peer \in Phases /\ peerCipher \in BOOLEAN
    BY <1>1, <1>2, Types DEF PeerReads, Packets, LockstepInv
  <2>3. peerCompress' \in BOOLEAN
    BY <1>2
  <2>. QED BY <2>1, <2>2, <2>3 DEF Packet, Packets
<1>5. toServer' = toServer \o [i \in 1..1 |-> r]
  <2> DEFINE f == [i \in 1..Len(<<a>>) |->
                     Packet(<<a>>[i], peer, peerCompress', peerCipher, FALSE)]
  <2>1. toServer' = toServer \o f
    BY <1>3 DEF Reply
  <2>2. f = [i \in 1..1 |-> r]
    <3>1. Len(<<a>>) = 1 /\ \A i \in 1..1 : <<a>>[i] = a
      OBVIOUS
    <3>. QED BY <3>1 DEF Packet
  <2>. QED BY <2>1, <2>2
<1> HIDE DEF r
<1>6. toServer' = Append(toServer, r)
  <2>1. toServer \in Seq(Packets)
    BY Types DEF LockstepInv
  <2>. QED BY <2>1, <1>4, <1>5
<1>7. a \in EncryptionAnswers => p.type = "EncryptionRequest"
  BY Answers DEF EncryptionAnswers
<1>. QED BY <1>2, <1>4, <1>6, <1>7 DEF p

\* A packet the server takes leaves at most those keep alives that there were,
\* and none if it was one.
LEMMA TakenKeepsOne ==
  ASSUME LockstepInv, KeepAliveInv, toServer # <<>>, toServer' = Tail(toServer),
         toPeer' = toPeer,
         keepAlive' = keepAlive \/ toServer[1].type = "KeepAlive"
  PROVE  KeepAliveInv'
<1>1. toServer \in Seq(Packets)
  BY Types DEF LockstepInv
<1>2. /\ OneIn(toServer')
      /\ toServer[1].type = "KeepAlive" => ~Holds(toServer', "KeepAlive")
      /\ Holds(toServer, "KeepAlive") <=>
           toServer[1].type = "KeepAlive" \/ Holds(toServer', "KeepAlive")
  BY <1>1, RestOne, RestHolds DEF KeepAliveInv
<1>. QED BY <1>2 DEF KeepAliveInv

\* The server sends a keep alive only where it waits for none, and stops waiting
\* only once the answer is there; the peer answers each of them once.
LEMMA NextKeepAlive ==
  ASSUME LockstepInv, KeepAliveInv, [Next]_vars
  PROVE  KeepAliveInv'
<1>1. toServer \in Seq(Packets) /\ toPeer \in Seq(Packets)
  BY Types DEF LockstepInv
<1>2. ASSUME UNCHANGED <<toServer, toPeer, keepAlive>>
      PROVE  KeepAliveInv'
  BY <1>2 DEF KeepAliveInv
<1>3. ASSUME NEW t \in Written \cup {"SetCompression"}, Send(t), UNCHANGED <<toServer, keepAlive>>
      PROVE  KeepAliveInv'
  <2>1. PICK p \in Packets : p.type = t /\ toPeer' = Append(toPeer, p)
    BY <1>3, Sent
  <2>2. p.type # "KeepAlive"
    BY <2>1 DEF Written
  <2>3. OneIn(toPeer') /\ (Holds(toPeer', "KeepAlive") <=> Holds(toPeer, "KeepAlive"))
    BY <2>1, <2>2, <1>1, OtherGrown DEF KeepAliveInv
  <2>. QED BY <2>3, <1>3 DEF KeepAliveInv
<1>4. CASE StepWrite
  <2>1. steps # <<>> /\ Head(steps)[1] = "write"
    BY <1>4 DEF StepWrite, AtStep
  <2>2. Head(steps)[2] \in Written
    BY <2>1, NextStep, StepKinds
  <2>3. /\ UNCHANGED toPeer \/ Send(Head(steps)[2])
        /\ UNCHANGED <<toServer, keepAlive>>
    BY <1>4 DEF StepWrite
  <2>. QED BY <2>2, <2>3, <1>2, <1>3
<1>5. CASE StepCompress
  BY <1>5, <1>2, <1>3 DEF StepCompress
<1>6. CASE StepPhase \/ StepProfile \/ StepEncrypt \/ StepAuthenticate \/ StepJoin
  BY <1>6, <1>2 DEF StepPhase, StepProfile, StepEncrypt, StepAuthenticate, StepJoin,
                    client, wires
<1>7. CASE Handle
  <2>1. /\ toServer # <<>> /\ toServer' = Tail(toServer) /\ toPeer' = toPeer
        /\ keepAlive' = keepAlive \/ toServer[1].type = "KeepAlive"
    <3>1. CASE HandleKeepAlive
      BY <3>1, Received DEF HandleKeepAlive
    <3>2. CASE HandleNothing
      BY <3>2 DEF HandleNothing, client
    <3>3. CASE \/ HandleHandshake \/ HandleLoginStart \/ HandleForwardingSigned
               \/ HandleForwardingUnsigned \/ HandleForwardingUnknown
               \/ HandleEncryptionResponse \/ HandleLoginAcknowledged
               \/ HandleAcknowledgeFinish \/ HandlePing
      <4>1. keepAlive' = keepAlive /\ \E t : Receives(t)
        BY <3>3, Zenon DEF HandleHandshake, HandleLoginStart, HandleForwardingSigned,
           HandleForwardingUnsigned, HandleForwardingUnknown, HandleEncryptionResponse,
           HandleLoginAcknowledged, HandleAcknowledgeFinish, HandlePing
      <4>. QED BY <4>1, Received
    <3>. QED BY <3>1, <3>2, <3>3, <1>7 DEF Handle
  <2>. QED BY <2>1, TakenKeepsOne
<1>8. CASE EndOfRun \/ LeaveRoster \/ Close \/ PeerStops \/ UNCHANGED vars
  BY <1>8, <1>2 DEF EndOfRun, LeaveRoster, Close, PeerStops, vars, client, wires
<1>9. CASE Sweep
  <2>1. CASE toPeer' = toPeer
    BY <2>1, <1>9 DEF Sweep, KeepAliveInv
  <2>2. CASE toPeer' # toPeer
    <3>1. Send("KeepAlive") /\ keepAlive' = TRUE /\ ~keepAlive /\ toServer' = toServer
      BY <2>2, <1>9 DEF Sweep
    <3>2. ~Holds(toServer, "KeepAlive") /\ ~Holds(toPeer, "KeepAlive")
      BY <3>1 DEF KeepAliveInv
    <3>3. PICK p \in Packets : toPeer' = Append(toPeer, p)
      BY <3>1, Sent
    <3>4. OneIn(toPeer')
      BY <3>2, <3>3, <1>1, GrownOne DEF KeepAliveInv
    <3>. QED BY <3>1, <3>2, <3>4 DEF KeepAliveInv
  <2>. QED BY <2>1, <2>2
<1>10. CASE PeerOpens
  <2>1. toPeer' = toPeer /\ keepAlive' = keepAlive
    BY <1>10 DEF PeerOpens, client
  <2>2. \A i \in 1..Len(toServer') : toServer'[i].type # "KeepAlive"
    <3>1. PICK t \in {"LoginStart", "StatusRequest"} :
            toServer' = <<Packet("Handshake", "handshake", FALSE, FALSE, FALSE),
                          Packet(t, conf.intent, FALSE, FALSE, FALSE)>>
      BY <1>10 DEF PeerOpens
    <3> DEFINE a == Packet("Handshake", "handshake", FALSE, FALSE, FALSE)
               b == Packet(t, conf.intent, FALSE, FALSE, FALSE)
    <3>2. a.type = "Handshake" /\ b.type = t
      BY DEF Packet
    <3> HIDE DEF a, b
    <3>3. toServer' = <<a, b>>
      BY <3>1 DEF a, b
    <3>4. Len(toServer') = 2 /\ toServer'[1] = a /\ toServer'[2] = b
      BY <3>3
    <3>5. \A i \in 1..2 : i = 1 \/ i = 2
      OBVIOUS
    <3>. QED BY <3>2, <3>4, <3>5
  <2>. QED BY <2>1, <2>2 DEF KeepAliveInv, OneIn, Holds
<1>11. CASE PeerAnswers
  <2>1. toPeer # <<>> /\ toPeer' = Tail(toPeer) /\ keepAlive' = keepAlive
    BY <1>11 DEF PeerAnswers, client
  <2>2. /\ OneIn(toPeer')
        /\ toPeer[1].type = "KeepAlive" => ~Holds(toPeer', "KeepAlive")
        /\ Holds(toPeer, "KeepAlive") <=>
             toPeer[1].type = "KeepAlive" \/ Holds(toPeer', "KeepAlive")
    BY <2>1, <1>1, RestOne, RestHolds DEF KeepAliveInv
  <2>3. CASE toServer' = toServer
    BY <2>1, <2>2, <2>3 DEF KeepAliveInv
  <2>4. CASE toServer' # toServer
    <3>1. PICK a \in Answer(toPeer[1]) : \E r \in Packets :
            r.type = a /\ toServer' = Append(toServer, r)
      BY <2>4, <1>11, Replied
    <3>2. PICK r \in Packets : r.type = a /\ toServer' = Append(toServer, r)
      BY <3>1
    <3>3. a = "KeepAlive" => toPeer[1].type = "KeepAlive"
      BY <3>1, Answers DEF EncryptionAnswers
    <3>4. OneIn(toServer')
      BY <2>2, <3>2, <3>3, <1>1, GrownOne DEF KeepAliveInv
    <3>5. Holds(toServer', "KeepAlive") <=> Holds(toServer, "KeepAlive") \/ a = "KeepAlive"
      BY <3>2, <1>1, GrownHolds
    <3>. QED BY <2>1, <2>2, <3>3, <3>4, <3>5 DEF KeepAliveInv
  <2>. QED BY <2>3, <2>4
<1>. QED BY <1>4, <1>5, <1>6, <1>7, <1>8, <1>9, <1>10, <1>11 DEF Next, Step

\* There is never an answer on its way to a keep alive the server does not wait
\* for, nor two of them: ConfirmKeepAlive never has to refuse one.
THEOREM AnswersMatchAlways == Spec => []AnswersMatch
<1>1. Init => KeepAliveInv
  <2>1. ASSUME Init PROVE toServer = <<>> /\ toPeer = <<>>
    BY <2>1 DEF Init
  <2>. QED BY <2>1, EmptyHolds DEF KeepAliveInv, OneIn
<1>2. LockstepInv /\ KeepAliveInv /\ [Next]_vars => KeepAliveInv'
  BY NextKeepAlive
<1>3. LockstepInv /\ KeepAliveInv => AnswersMatch
  <2> SUFFICES ASSUME LockstepInv, KeepAliveInv
               PROVE  AnswersMatch
    OBVIOUS
  <2> DEFINE w == toServer \o toPeer
  <2>1. /\ Len(toServer) \in Nat /\ Len(toPeer) \in Nat
        /\ toServer \in Seq(Packets) /\ toPeer \in Seq(Packets)
    BY Types DEF LockstepInv
  <2>2. /\ Len(w) = Len(toServer) + Len(toPeer)
        /\ \A i \in 1..Len(toServer) : w[i] = toServer[i]
        /\ \A i \in 1..Len(toPeer) : w[Len(toServer) + i] = toPeer[i]
    BY <2>1, Places
  <2> HIDE DEF w
  <2>3. ASSUME NEW i \in 1..Len(w), w[i].type = "KeepAlive"
        PROVE  /\ keepAlive
               /\ \/ /\ i \in 1..Len(toServer) /\ toServer[i].type = "KeepAlive"
                     /\ ~Holds(toPeer, "KeepAlive")
                  \/ \E k \in 1..Len(toPeer) :
                       i = Len(toServer) + k /\ toPeer[k].type = "KeepAlive"
    <3>1. CASE i \in 1..Len(toServer)
      BY <3>1, <2>2, <2>3 DEF KeepAliveInv, Holds
    <3>2. CASE i \notin 1..Len(toServer)
      <4>1. PICK k \in 1..Len(toPeer) : i = Len(toServer) + k
        <5>1. i - Len(toServer) \in 1..Len(toPeer) /\ i = Len(toServer) + (i - Len(toServer))
          BY <3>2, <2>1, <2>2
        <5>. QED BY <5>1
      <4>2. toPeer[k].type = "KeepAlive"
        BY <4>1, <2>2, <2>3
      <4>. QED BY <4>1, <4>2 DEF KeepAliveInv, Holds
    <3>. QED BY <3>1, <3>2
  <2>4. ASSUME NEW i \in 1..Len(w), NEW j \in 1..Len(w),
               w[i].type = "KeepAlive", w[j].type = "KeepAlive"
        PROVE  keepAlive /\ i = j
    BY <2>3, <2>4 DEF KeepAliveInv, OneIn, Holds
  <2>. QED BY <2>4 DEF AnswersMatch, w
<1>. QED BY <1>1, <1>2, <1>3, AlwaysLockstep, PTL DEF Spec

-------------------------------------------------------------------------------
(* Who settles a login                                                        *)

\* Who is to settle a login is about the configuration alone.
LEMMA SettlerSame ==
  ASSUME conf' = conf
  PROVE  /\ Settler' = Settler /\ (CanAskProxy' <=> CanAskProxy) /\ (NoProxy' <=> NoProxy)
  BY DEF Settler, CanAskProxy, NoProxy, HasLoginPluginMessages

\* Whether somebody vouches for a profile is about that, the cipher and the
\* proxy's word, and about nothing else.
LEMMA SettledSame ==
  ASSUME UNCHANGED <<conf, cipher, forwarding, forwarded>>, NEW s
  PROVE  /\ Settled(s)' <=> Settled(s)
         /\ CanAskProxy' <=> CanAskProxy
         /\ NoProxy' <=> NoProxy
  BY SettlerSame DEF Settled

\* So is what is made of it, where nothing about it changes.
LEMMA ProfileSame ==
  ASSUME UNCHANGED <<conf, cipher, forwarding, forwarded, profile>>
  PROVE  /\ Settled(profile)' <=> Settled(profile)
         /\ CanAskProxy' <=> CanAskProxy
         /\ NoProxy' <=> NoProxy
  BY SettlerSame DEF Settled

\* So are the words that were given, and a token may be asked for where nobody
\* else has a say.
LEMMA VouchSame ==
  ASSUME VouchInv, UNCHANGED <<conf, cipher, forwarding, forwarded>>,
         verifyToken' => verifyToken \/ (conf.encryption /\ NoProxy)
  PROVE  VouchInv'
  BY SettlerSame DEF VouchInv

\* And what is left of a handler that goes on it.
LEMMA SettlingSame ==
  ASSUME SettlingInv, UNCHANGED <<steps, conf, cipher, forwarding, forwarded, profile>>
  PROVE  SettlingInv'
  BY SettlerSame DEF SettlingInv, Settled

\* A profile that is settled is one the client is told the truth about.
LEMMA SettledTold ==
  ASSUME NEW s, Settled(s), VouchInv, conf \in Configs
  PROVE  (conf.encryption \/ forwarded # "nobody") = (s \in Vouched)
<1>1. conf.encryption \in BOOLEAN
  BY ConfigTypes
<1>2. CASE s = "mojang"
  BY <1>2 DEF Settled, VouchInv, Vouched
<1>3. CASE s = "modern" \/ s = "bungee"
  BY <1>3 DEF Settled, Vouched
<1>4. CASE s = "offline"
  <2>1. ~conf.encryption /\ forwarded = "nobody"
    BY <1>4 DEF Settled, Settler
  <2>. QED BY <2>1, <1>4 DEF Vouched
<1>. QED BY <1>2, <1>3, <1>4 DEF Settled

\* What is left of a handler after a step goes on from a settled profile.
LEMMA StepSettles ==
  ASSUME LockstepInv, SettlingInv, steps # <<>>, steps' = Tail(steps),
         UNCHANGED <<conf, cipher, forwarding, forwarded>>,
         profile' = IF Kind(steps, 1) = "profile" THEN What(steps, 1) ELSE profile
  PROVE  SettlingInv'
<1>1. /\ steps \in Seq(StepSet) /\ Len(steps) \in Nat /\ 1 \in 1..Len(steps)
      /\ InOrder(steps, phase, conf.version)
  BY NextStep
<1>2. \A i \in 1..Len(steps') : i + 1 \in 1..Len(steps) /\ steps'[i] = steps[i + 1] /\ i + 1 # 1
  BY <1>1, Rest
<1>3. ASSUME NEW i \in 1..Len(steps')
      PROVE  /\ Kind(steps', i) # "profile"
             /\ Kind(steps', i) = "phase" \/ steps'[i] = Write("LoginSuccess") => Settled(profile')
             /\ Kind(steps', i) = "encrypt" => conf.encryption /\ NoProxy
             /\ steps'[i] = Write("LoginPluginRequest") => CanAskProxy
  <2>1. PICK j \in 1..Len(steps) : steps'[i] = steps[j] /\ j # 1
    BY <1>2
  <2>2. Kind(steps', i) = Kind(steps, j)
    BY <2>1 DEF Kind
  <2>3. Kind(steps, j) # "profile"
    BY <2>1, <1>1 DEF InOrder
  <2>4. ASSUME Kind(steps, j) = "phase" \/ steps[j] = Write("LoginSuccess")
        PROVE  Settled(profile')
    <3>1. CASE Kind(steps, 1) = "profile"
      BY <3>1, <1>1 DEF SettlingInv
    <3>2. CASE Kind(steps, 1) # "profile"
      BY <3>2, <2>4 DEF SettlingInv
    <3>. QED BY <3>1, <3>2
  <2>5. /\ Kind(steps, j) = "encrypt" => conf.encryption /\ NoProxy
        /\ steps[j] = Write("LoginPluginRequest") => CanAskProxy
    BY DEF SettlingInv
  <2>. QED BY <2>1, <2>2, <2>3, <2>4, <2>5
<1>4. /\ Settled(profile)' <=> Settled(profile')
      /\ (CanAskProxy' <=> CanAskProxy) /\ (NoProxy' <=> NoProxy) /\ conf' = conf
  BY SettlerSame DEF Settled
<1>. QED BY <1>3, <1>4 DEF SettlingInv

\* What the server sends on the strength of a profile, it sends once that is
\* settled.
LEMMA SendSettles ==
  ASSUME LockstepInv, SettledInv, NEW t \in Written \cup {"SetCompression", "KeepAlive"}, Send(t),
         UNCHANGED <<conf, phase, cipher, verifyToken, forwarding, forwarded, profile, toServer>>,
         t = "LoginSuccess" => Settled(profile),
         t = "LoginPluginRequest" => CanAskProxy,
         t = "Login" => phase = "play"
  PROVE  VouchInv' /\ ProfileInv' /\ OnlineModeTruthful'
<1>1. VouchInv'
  BY VouchSame DEF SettledInv
<1>2. PICK p \in Packets :
        /\ p.type = t /\ toPeer' = Append(toPeer, p)
        /\ p.onlineMode = (t = "Login" /\ (conf.encryption \/ forwarded # "nobody"))
  BY Sent
<1>3. toPeer \in Seq(Packets) /\ conf \in Configs
  BY Types DEF LockstepInv
<1>4. /\ Len(toPeer) \in Nat /\ Len(toPeer') = Len(toPeer) + 1
      /\ \A i \in 1..Len(toPeer) : toPeer'[i] = toPeer[i]
      /\ toPeer'[Len(toPeer) + 1] = p
  BY <1>2, <1>3, Grown
<1>5. \A x : Holds(toPeer', x) <=> Holds(toPeer, x) \/ t = x
  BY <1>2, <1>3, GrownHolds
<1>6. (Settled(profile)' <=> Settled(profile)) /\ (CanAskProxy' <=> CanAskProxy)
  BY ProfileSame
<1>7. ProfileInv'
  BY <1>5, <1>6 DEF SettledInv, ProfileInv
<1>8. OnlineModeTruthful'
  <2> SUFFICES ASSUME NEW i \in 1..Len(toPeer'), toPeer'[i].type = "Login"
               PROVE  toPeer'[i].onlineMode = (profile \in Vouched)
    BY DEF OnlineModeTruthful
  <2>1. CASE i \in 1..Len(toPeer)
    BY <2>1, <1>4 DEF SettledInv, OnlineModeTruthful
  <2>2. CASE i = Len(toPeer) + 1
    <3>1. toPeer'[i] = p /\ t = "Login"
      BY <2>2, <1>2, <1>4
    <3>2. Settled(profile)
      BY <3>1 DEF SettledInv, ProfileInv
    <3>3. (conf.encryption \/ forwarded # "nobody") = (profile \in Vouched)
      BY <3>2, <1>3, SettledTold DEF SettledInv
    <3>. QED BY <3>1, <3>3, <1>2
  <2>. QED BY <2>1, <2>2, <1>4
<1>. QED BY <1>1, <1>7, <1>8

\* Where no packet moves, neither does what was sent on the profile's strength.
LEMMA StillSettles ==
  ASSUME SettledInv, UNCHANGED <<conf, forwarding, forwarded, profile, cipher, toServer, toPeer>>,
         verifyToken' => verifyToken \/ (conf.encryption /\ NoProxy),
         phase' # phase => phase' \in {"configuration", "play"} /\ Settled(profile)
  PROVE  VouchInv' /\ ProfileInv' /\ OnlineModeTruthful'
<1>1. (Settled(profile)' <=> Settled(profile)) /\ (CanAskProxy' <=> CanAskProxy)
  BY ProfileSame
<1>2. VouchInv'
  BY VouchSame DEF SettledInv
<1>3. OnlineModeTruthful'
  BY DEF SettledInv, OnlineModeTruthful
<1>4. ProfileInv'
  BY <1>1 DEF SettledInv, ProfileInv
<1>. QED BY <1>2, <1>3, <1>4

\* The kinds of steps there are in what the login phase writes.
LEMMA LoginKinds ==
  ASSUME NEW s, NEW asked, NEW asking,
         \/ s = <<>> \/ s = <<Write("Disconnect")>>
         \/ s = <<Write("LoginPluginRequest")>> /\ asking
         \/ s = AskForEncryption /\ asked
  PROVE  \A i \in 1..Len(s) :
           /\ Kind(s, i) # "profile" /\ Kind(s, i) # "phase" /\ s[i] # Write("LoginSuccess")
           /\ Kind(s, i) = "encrypt" => asked
           /\ s[i] = Write("LoginPluginRequest") => asking
<1>1. CASE s = <<>>
  BY <1>1
<1>2. ASSUME NEW t \in {"LoginPluginRequest", "Disconnect"}, s = <<Write(t)>>
      PROVE  \A i \in 1..Len(s) :
               /\ Kind(s, i) = "write" /\ s[i] # Write("LoginSuccess")
               /\ s[i] = Write("LoginPluginRequest") => t = "LoginPluginRequest"
  <2>1. t \in Written \ {"LoginSuccess", "EncryptionRequest"} /\ Belongs(t, "login")
    BY DEF Written, Belongs
  <2>2. Len(s) = 1 /\ Kind(s, 1) = "write" /\ What(s, 1) = t
    BY <1>2, <2>1, OneWriteIsAProgram
  <2>3. s[1] # Write("LoginSuccess") /\ (s[1] = Write("LoginPluginRequest") => t = "LoginPluginRequest")
    BY <2>2, Named DEF What
  <2>. QED BY <2>2, <2>3
<1>3. CASE s = AskForEncryption /\ asked
  <2>1. /\ Len(s) = 2 /\ Kind(s, 1) = "encrypt" /\ s[2] = Write("EncryptionRequest")
    BY <1>3, AskForEncryptionIsAProgram
  <2>2. /\ s[1] # Write("LoginSuccess") /\ s[2] # Write("LoginSuccess") /\ Kind(s, 2) = "write"
        /\ s[1] # Write("LoginPluginRequest") /\ s[2] # Write("LoginPluginRequest")
    BY <2>1, Named DEF Kind
  <2>3. \A i \in 1..Len(s) : i = 1 \/ i = 2
    BY <2>1
  <2>. QED BY <2>1, <2>2, <2>3, <1>3
<1>4. CASE s = <<Write("Disconnect")>>
  BY <1>2, <1>4
<1>5. CASE s = <<Write("LoginPluginRequest")>> /\ asking
  BY <1>2, <1>5
<1>. QED BY <1>1, <1>3, <1>4, <1>5

\* And in a login completed, which settles the profile first.
LEMMA CompleteKinds ==
  ASSUME NEW source \in {"offline", "bungee", "modern", "mojang"}, NEW s, s = CompleteLogin(source)
  PROVE  /\ Kind(s, 1) = "profile"
         /\ \A i \in 1..Len(s) : /\ Kind(s, i) = "profile" => What(s, i) = source
                                 /\ Kind(s, i) # "encrypt"
                                 /\ s[i] # Write("LoginPluginRequest")
<1>1. /\ Program(s, "login", conf.version) /\ s[1] = SetProfile(source)
      /\ \A i \in 2..Len(s) : /\ Kind(s, i) \in {"compress", "write", "phase", "join"}
                              /\ What(s, i) # "LoginPluginRequest"
  BY CompleteLoginIsAProgram
<1>2. Kind(s, 1) = "profile" /\ What(s, 1) = source
  BY <1>1, Named DEF Kind, What
<1>3. \A i \in 1..Len(s) : i = 1 \/ i \in 2..Len(s)
  BY <1>1 DEF Program
<1>4. ASSUME NEW i \in 1..Len(s)
      PROVE  s[i] # Write("LoginPluginRequest")
  <2>1. Kind(s, i) = "profile" \/ What(s, i) # "LoginPluginRequest"
    BY <1>1, <1>2, <1>3
  <2>2. /\ Write("LoginPluginRequest")[1] = "write"
        /\ Write("LoginPluginRequest")[2] = "LoginPluginRequest"
    BY Named
  <2>. QED BY <2>1, <2>2 DEF Kind, What
<1>. QED BY <1>1, <1>2, <1>3, <1>4

\* A handler that the login phase goes on with settles what it settles on the
\* word of whom it asked.
LEMMA LoginSettles ==
  ASSUME \/ steps' = <<>> \/ steps' = <<Write("Disconnect")>>
         \/ steps' = <<Write("LoginPluginRequest")>> /\ CanAskProxy
         \/ steps' = AskForEncryption /\ conf.encryption /\ NoProxy
         \/ \E source \in {"offline", "bungee", "modern", "mojang"} :
              steps' = CompleteLogin(source) /\ Settled(source)',
         conf' = conf
  PROVE  SettlingInv'
<1>1. CASE \/ steps' = <<>> \/ steps' = <<Write("Disconnect")>>
           \/ steps' = <<Write("LoginPluginRequest")>> /\ CanAskProxy
           \/ steps' = AskForEncryption /\ conf.encryption /\ NoProxy
  <2>1. \A i \in 1..Len(steps') :
           /\ Kind(steps', i) # "profile" /\ Kind(steps', i) # "phase"
           /\ steps'[i] # Write("LoginSuccess")
           /\ Kind(steps', i) = "encrypt" => conf.encryption /\ NoProxy
           /\ steps'[i] = Write("LoginPluginRequest") => CanAskProxy
    BY <1>1, LoginKinds
  <2>. QED BY <2>1, SettlerSame DEF SettlingInv
<1>2. ASSUME NEW source \in {"offline", "bungee", "modern", "mojang"},
             steps' = CompleteLogin(source), Settled(source)'
      PROVE  SettlingInv'
  <2>1. /\ Kind(steps', 1) = "profile"
        /\ \A i \in 1..Len(steps') : /\ Kind(steps', i) = "profile" => What(steps', i) = source
                                     /\ Kind(steps', i) # "encrypt"
                                     /\ steps'[i] # Write("LoginPluginRequest")
    BY <1>2, CompleteKinds
  <2>. QED BY <2>1, <1>2 DEF SettlingInv, Settled
<1>. QED BY <1>1, <1>2

\* What drives a login is alone on its way: what it leads to is all there is to
\* settle.
LEMMA DrivenSettles ==
  ASSUME LockstepInv, SettledInv, toServer # <<>>, toServer[1].type \in Driving,
         toServer' = Tail(toServer), UNCHANGED <<conf, phase, toPeer>>,
         forwarded' = forwarded \/ conf.peer # "bungee",
         VouchInv', SettlingInv', phase \in {"configuration", "play"} => Settled(profile)'
  PROVE  SettledInv'
<1>1. toServer' = <<>> /\ toPeer' = <<>> /\ Belongs(toServer[1].type, phase)
  BY DrivingAlone
<1>2. phase # "handshake"
  BY <1>1 DEF Belongs, Driving
<1>3. \A t : ~Holds(toServer', t) /\ ~Holds(toPeer', t)
  BY <1>1, EmptyHolds
<1>4. \A i \in 1..Len(toPeer') : FALSE
  BY <1>1
<1>5. /\ phase' = "login" /\ ~conf'.secret /\ ~conf'.encryption /\ conf'.peer = "bungee" =>
           forwarded' = "bungee"
      /\ phase' \in {"configuration", "play"} => Settled(profile)'
  BY DEF SettledInv, ProfileInv
<1>6. ProfileInv' /\ OnlineModeTruthful'
  BY <1>2, <1>3, <1>4, <1>5 DEF ProfileInv, OnlineModeTruthful
<1>. QED BY <1>6 DEF SettledInv

\* A server that holds a secret no proxy signed with takes the player's word
\* only if it encrypts nothing.
LEMMA WithoutTheProxy ==
  ASSUME conf' = conf, steps' = SettleWithoutTheProxy, conf \in Configs,
         conf.secret, NoProxy, forwarded' = "nobody", forwarding' = FALSE
  PROVE  SettlingInv'
<1>1. CASE conf.encryption
  <2>1. steps' = AskForEncryption
    BY <1>1 DEF SettleWithoutTheProxy
  <2>. QED BY <1>1, <2>1, LoginSettles
<1>2. CASE ~conf.encryption
  <2>1. steps' = CompleteLogin("offline")
    BY <1>2 DEF SettleWithoutTheProxy
  <2>2. Settler = "offline" /\ Settler' = Settler
    BY <1>2, SettlerSame DEF Settler, NoProxy
  <2>3. Settled("offline")'
    BY <2>2 DEF Settled
  <2>. QED BY <2>1, <2>3, LoginSettles
<1>. QED BY <1>1, <1>2

\* A login start: what it can be taken at its word for depends on whom else there
\* is to ask.
LEMMA LoginStartSettles ==
  ASSUME LockstepInv, SettledInv, HandleLoginStart
  PROVE  SettledInv'
<1>1. /\ toServer # <<>> /\ toServer[1].type = "LoginStart" /\ toServer' = Tail(toServer)
      /\ UNCHANGED <<conf, phase, toPeer>>
      /\ cipher' = cipher /\ verifyToken' = verifyToken /\ forwarded' = forwarded
  BY Received DEF HandleLoginStart
<1>2. /\ toServer[1].type \in Driving /\ phase = "login"
  BY <1>1, DrivingAlone DEF Driving, Belongs
<1>3. /\ forwarded \in {"nobody", "bungee"} /\ forwarding \in BOOLEAN
      /\ conf \in Configs /\ conf.encryption \in BOOLEAN /\ conf.secret \in BOOLEAN
  <2>1. forwarded # "modern"
    <3>1. Holds(toServer, "LoginStart")
      BY <1>1, Types DEF LockstepInv, Holds
    <3>. QED BY <3>1 DEF SettledInv, ProfileInv
  <2>2. forwarded \in {"nobody", "bungee", "modern"} /\ forwarding \in BOOLEAN /\ conf \in Configs
    BY Types DEF LockstepInv, TypeOK
  <2>. QED BY <2>1, <2>2, ConfigTypes
<1>4. /\ forwarding' = (forwarding \/ CanAskProxy)
      /\ steps' = CASE CanAskProxy /\ forwarding -> <<>>
                    [] CanAskProxy /\ ~forwarding -> <<Write("LoginPluginRequest")>>
                    [] ~CanAskProxy /\ conf.secret -> SettleWithoutTheProxy
                    [] ~conf.secret /\ conf.encryption -> AskForEncryption
                    [] OTHER -> CompleteLogin(IF forwarded = "nobody" THEN "offline"
                                                                     ELSE forwarded)
  BY DEF HandleLoginStart, CanAskProxy
<1>5. conf.secret => forwarded = "nobody"
  BY <1>3 DEF SettledInv, VouchInv
<1>6. /\ forwarding => CanAskProxy
      /\ CanAskProxy => conf.secret
      /\ ~CanAskProxy => NoProxy
      /\ (CanAskProxy' <=> CanAskProxy) /\ (NoProxy' <=> NoProxy) /\ Settler' = Settler
  BY <1>1, SettlerSame DEF SettledInv, VouchInv, CanAskProxy, NoProxy
<1>7. VouchInv'
  BY <1>1, <1>4, <1>5, <1>6 DEF SettledInv, VouchInv
<1>8. SettlingInv'
  <2>1. CASE CanAskProxy
    <3>1. steps' = <<>> \/ steps' = <<Write("LoginPluginRequest")>>
      BY <2>1, <1>3, <1>4, <1>6
    <3>. QED BY <3>1, <2>1, <1>1, LoginSettles
  <2>2. CASE ~CanAskProxy /\ conf.secret
    <3>1. steps' = SettleWithoutTheProxy /\ forwarding' = FALSE
      BY <2>2, <1>3, <1>4, <1>6
    <3>. QED BY <3>1, <2>2, <1>1, <1>3, <1>5, <1>6, WithoutTheProxy
  <2>3. CASE ~conf.secret /\ conf.encryption
    <3>1. steps' = AskForEncryption /\ NoProxy
      BY <2>3, <1>4, <1>6
    <3>. QED BY <3>1, <2>3, <1>1, LoginSettles
  <2>4. CASE ~conf.secret /\ ~conf.encryption
    <3>1. steps' = CompleteLogin(IF forwarded = "nobody" THEN "offline" ELSE forwarded)
      BY <2>4, <1>4, <1>6
    <3>2. forwarding' = FALSE
      BY <2>4, <1>3, <1>4, <1>6
    <3>3. CASE forwarded = "nobody"
      <4>1. conf.peer # "bungee"
        BY <3>3, <2>4, <1>2 DEF SettledInv, ProfileInv
      <4>2. Settler = "offline"
        BY <4>1, <2>4, <1>6 DEF Settler
      <4>3. Settled("offline")'
        BY <4>2, <3>2, <3>3, <1>1, <1>6 DEF Settled
      <4>. QED BY <4>3, <3>1, <3>3, <1>1, LoginSettles
    <3>4. CASE forwarded = "bungee"
      <4>1. Settler = "bungee"
        BY <3>4, <2>4, <1>6 DEF Settler, SettledInv, VouchInv
      <4>2. Settled("bungee")'
        BY <4>1, <3>4, <1>1, <1>6 DEF Settled
      <4>. QED BY <4>2, <3>1, <3>4, <1>1, LoginSettles
    <3>. QED BY <3>3, <3>4, <1>3
  <2>. QED BY <2>1, <2>2, <2>3, <2>4
<1>. QED BY <1>1, <1>2, <1>7, <1>8, DrivenSettles

\* The answer to a forwarding request: signed, not signed, or not understood.
LEMMA ForwardingSettles ==
  ASSUME LockstepInv, SettledInv,
         HandleForwardingSigned \/ HandleForwardingUnsigned \/ HandleForwardingUnknown
  PROVE  SettledInv'
<1>1. /\ toServer # <<>> /\ toServer' = Tail(toServer)
      /\ toServer[1].type \in {"ForwardingSigned", "ForwardingUnsigned", "ForwardingUnknown"}
      /\ HandleForwardingSigned => toServer[1].type = "ForwardingSigned"
      /\ UNCHANGED <<conf, phase, toPeer>>
      /\ cipher' = cipher /\ verifyToken' = verifyToken /\ profile' = profile
  <2>1. CASE HandleForwardingSigned
    BY <2>1, Received DEF HandleForwardingSigned
  <2>2. CASE HandleForwardingUnsigned
    <3>1. ~HandleForwardingSigned \/ toServer[1].type = "ForwardingSigned"
      BY Received DEF HandleForwardingSigned
    <3>. QED BY <2>2, <3>1, Received DEF HandleForwardingUnsigned
  <2>3. CASE HandleForwardingUnknown
    <3>1. ~HandleForwardingSigned \/ toServer[1].type = "ForwardingSigned"
      BY Received DEF HandleForwardingSigned
    <3>. QED BY <2>3, <3>1, Received DEF HandleForwardingUnknown
  <2>. QED BY <2>1, <2>2, <2>3
<1>2. toServer[1].type \in Driving /\ phase = "login"
  BY <1>1, DrivingAlone DEF Driving, Belongs
<1>3. forwarding \in BOOLEAN /\ conf \in Configs
  BY Types DEF LockstepInv
<1>4. CASE HandleForwardingSigned
  <2>1. /\ forwarding => /\ forwarding' = FALSE /\ forwarded' = "modern"
                         /\ steps' = CompleteLogin("modern")
        /\ ~forwarding => /\ UNCHANGED <<forwarding, forwarded>>
                          /\ steps' = <<Write("Disconnect")>>
    BY <1>4 DEF HandleForwardingSigned
  <2>2. conf.peer = "modern"
    <3>1. Holds(toServer, "ForwardingSigned")
      BY <1>1, <1>4, Types DEF LockstepInv, Holds
    <3>. QED BY <3>1 DEF SettledInv, ProfileInv
  <2>3. CASE forwarding
    <3>1. CanAskProxy /\ (CanAskProxy' <=> CanAskProxy) /\ (NoProxy' <=> NoProxy)
          /\ Settler' = Settler
      BY <2>3, <1>1, SettlerSame DEF SettledInv, VouchInv
    <3>2. VouchInv'
      BY <2>1, <2>2, <2>3, <3>1, <1>1 DEF SettledInv, VouchInv
    <3>3. Settler = "modern"
      BY <2>2, <3>1 DEF Settler
    <3>4. Settled("modern")'
      BY <2>1, <2>3, <3>1, <3>3 DEF Settled
    <3>5. SettlingInv'
      BY <2>1, <2>3, <3>4, <1>1, LoginSettles
    <3>. QED BY <2>2, <3>2, <3>5, <1>1, <1>2, DrivenSettles
  <2>4. CASE ~forwarding
    <3>1. VouchInv'
      BY <2>1, <2>4, <1>1, VouchSame DEF SettledInv
    <3>2. SettlingInv'
      BY <2>1, <2>4, <1>1, LoginSettles
    <3>. QED BY <2>1, <2>4, <3>1, <3>2, <1>1, <1>2, DrivenSettles
  <2>. QED BY <2>3, <2>4
<1>5. CASE HandleForwardingUnsigned
  <2>1. UNCHANGED <<forwarding, forwarded>> /\ steps' = <<Write("Disconnect")>>
    BY <1>5 DEF HandleForwardingUnsigned
  <2>2. VouchInv'
    BY <2>1, <1>1, VouchSame DEF SettledInv
  <2>3. SettlingInv'
    BY <2>1, <1>1, LoginSettles
  <2>. QED BY <2>1, <2>2, <2>3, <1>1, <1>2, DrivenSettles
<1>6. CASE HandleForwardingUnknown
  <2>1. /\ forwarding' = FALSE /\ forwarded' = forwarded
        /\ forwarding => steps' = SettleWithoutTheProxy
        /\ ~forwarding => steps' = <<Write("Disconnect")>>
    BY <1>6 DEF HandleForwardingUnknown
  <2>2. VouchInv'
    BY <2>1, <1>1, SettlerSame DEF SettledInv, VouchInv
  <2>3. SettlingInv'
    <3>1. CASE forwarding
      <4>1. Holds(toServer, "ForwardingUnknown")
        BY <1>1, <1>6, Received, Types DEF LockstepInv, Holds, HandleForwardingUnknown
      <4>2. forwarded' = "nobody" /\ conf.secret /\ NoProxy
        BY <3>1, <2>1, <4>1 DEF SettledInv, VouchInv, ProfileInv, CanAskProxy, NoProxy
      <4>. QED BY <4>2, <3>1, <2>1, <1>1, <1>3, WithoutTheProxy
    <3>2. CASE ~forwarding
      BY <3>2, <2>1, <1>1, LoginSettles
    <3>. QED BY <3>1, <3>2
  <2>. QED BY <2>1, <2>2, <2>3, <1>1, <1>2, DrivenSettles
<1>. QED BY <1>4, <1>5, <1>6

\* The other handlers that something drives ask nobody: they go on from what is
\* settled, and encryption only adds to it.
LEMMA EncryptionSettles ==
  ASSUME LockstepInv, SettledInv, HandleEncryptionResponse
  PROVE  SettledInv'
<1>1. cipher' = TRUE /\ verifyToken' = FALSE /\ steps' = <<<<"authenticate", "">>>>
  BY HandleEncryptionResponseKeeps
<1>2. /\ toServer # <<>> /\ toServer[1].type \in EncryptionAnswers /\ toServer' = Tail(toServer)
      /\ UNCHANGED <<conf, phase, toPeer>>
      /\ forwarding' = forwarding /\ forwarded' = forwarded
  <2>1. PICK t \in EncryptionAnswers : Receives(t)
    BY DEF HandleEncryptionResponse, EncryptionAnswers
  <2>. QED BY <2>1, Received DEF HandleEncryptionResponse
<1>3. toServer[1].type \in Driving
  BY <1>2 DEF Driving, EncryptionAnswers
<1>4. phase = "login" /\ verifyToken
  BY <1>2, <1>3, DrivingAlone DEF Belongs, EncryptionAnswers
<1>5. VouchInv'
  <2>1. conf.peer = "player"
    <3>1. Holds(toServer, toServer[1].type)
      BY <1>2, Types DEF LockstepInv, Holds
    <3>. QED BY <3>1, <1>2 DEF SettledInv, ProfileInv
  <2>. QED BY <2>1, <1>1, <1>2, <1>4, SettlerSame DEF SettledInv, VouchInv
<1>6. SettlingInv'
  <2>1. Len(steps') = 1 /\ Kind(steps', 1) = "authenticate"
    BY <1>1, AuthenticateIsAProgram
  <2>2. \A i \in 1..Len(steps') : Kind(steps', i) = "authenticate"
    BY <2>1
  <2>3. \A i \in 1..Len(steps') : /\ steps'[i] # Write("LoginSuccess")
                                  /\ steps'[i] # Write("LoginPluginRequest")
    BY <2>2, Named DEF Kind
  <2>. QED BY <2>2, <2>3 DEF SettlingInv
<1>. QED BY <1>2, <1>3, <1>4, <1>5, <1>6, DrivenSettles

\* A change of phase is made on a profile that is settled.
LEMMA GoingOnSettles ==
  ASSUME LockstepInv, SettledInv,
         HandleLoginAcknowledged \/ HandleAcknowledgeFinish \/ HandlePing
  PROVE  SettledInv'
<1>1. /\ toServer # <<>> /\ toServer' = Tail(toServer)
      /\ toServer[1].type \in {"LoginAcknowledged", "AcknowledgeFinish", "StatusRequest",
                               "PingRequest"}
      /\ HandleLoginAcknowledged => toServer[1].type = "LoginAcknowledged"
      /\ HandleAcknowledgeFinish => toServer[1].type = "AcknowledgeFinish"
      /\ UNCHANGED <<conf, phase, toPeer>>
      /\ UNCHANGED <<cipher, verifyToken, forwarding, forwarded, profile>>
  <2>1. HandleLoginAcknowledged => toServer[1].type = "LoginAcknowledged"
    BY Received DEF HandleLoginAcknowledged
  <2>2. HandleAcknowledgeFinish => toServer[1].type = "AcknowledgeFinish"
    BY Received DEF HandleAcknowledgeFinish
  <2>3. CASE HandleLoginAcknowledged
    BY <2>1, <2>2, <2>3, Received DEF HandleLoginAcknowledged
  <2>4. CASE HandleAcknowledgeFinish
    BY <2>1, <2>2, <2>4, Received DEF HandleAcknowledgeFinish
  <2>5. CASE HandlePing
    <3>1. PICK ask \in {"StatusRequest", "PingRequest"} :
            /\ Receives(ask)
            /\ UNCHANGED <<phase, cipher, verifyToken, forwarding, forwarded, profile, keepAlive>>
      BY <2>5 DEF HandlePing
    <3>. QED BY <2>1, <2>2, <3>1, Received
  <2>. QED BY <2>3, <2>4, <2>5
<1>2. /\ toServer[1].type \in Driving /\ Belongs(toServer[1].type, phase)
  BY <1>1, DrivingAlone DEF Driving
<1>3. VouchInv'
  BY <1>1, VouchSame DEF SettledInv
<1>4. Settled(profile)' <=> Settled(profile)
  BY <1>1, ProfileSame
<1>5. phase \in {"configuration", "play"} => Settled(profile)'
  BY <1>4 DEF SettledInv, ProfileInv
<1>6. ASSUME \A i \in 1..Len(steps') : /\ Kind(steps', i) \notin {"profile", "encrypt"}
                                       /\ steps'[i] # Write("LoginPluginRequest"),
             Settled(profile)
      PROVE  SettlingInv'
  BY <1>4, <1>6 DEF SettlingInv
<1>7. SettlingInv'
  <2>1. CASE HandleLoginAcknowledged
    <3>1. Settled(profile)
      <4>1. Holds(toServer, "LoginAcknowledged")
        BY <1>1, <2>1, Types DEF LockstepInv, Holds
      <4>. QED BY <4>1 DEF SettledInv, ProfileInv
    <3>2. HasConfigurationPhase(conf.version)
      BY <1>1, <1>2, <2>1, DrivingAlone
    <3>3. steps' = <<SetPhase("configuration"), Write("Registries"), Write("FinishConfiguration")>>
      BY <2>1 DEF HandleLoginAcknowledged
    <3>4. /\ Len(steps') = 3 /\ Kind(steps', 1) = "phase" /\ Kind(steps', 2) = "write"
          /\ Kind(steps', 3) = "write"
      BY <3>2, <3>3, LoginAcknowledgedIsAProgram
    <3>5. \A i \in 1..Len(steps') : i = 1 \/ i = 2 \/ i = 3
      BY <3>4
    <3>6. /\ steps'[1] # Write("LoginPluginRequest") /\ steps'[2] # Write("LoginPluginRequest")
          /\ steps'[3] # Write("LoginPluginRequest")
      <4>1. steps'[1] = SetPhase("configuration") /\ steps'[2] = Write("Registries")
            /\ steps'[3] = Write("FinishConfiguration")
        BY <3>3
      <4>. QED BY <4>1, Named
    <3>. QED BY <3>1, <3>4, <3>5, <3>6, <1>6
  <2>2. CASE HandleAcknowledgeFinish
    <3>1. Settled(profile)
      <4>1. phase = "configuration"
        BY <1>1, <1>2, <2>2 DEF Belongs
      <4>. QED BY <4>1 DEF SettledInv, ProfileInv
    <3>2. steps' = EnterPlay
      BY <2>2 DEF HandleAcknowledgeFinish
    <3>3. /\ Len(EnterPlay) \in {7, 8} /\ EnterPlay[1] = SetPhase("play")
          /\ \A i \in 2..Len(EnterPlay) : /\ EnterPlay[i][1] \in {"join", "write"}
                                          /\ EnterPlay[i][2] # "LoginPluginRequest"
      BY EnterPlaySteps DEF Written
    <3>4. \A i \in 1..Len(EnterPlay) : i = 1 \/ i \in 2..Len(EnterPlay)
      BY <3>3
    <3>5. \A i \in 1..Len(EnterPlay) : Kind(EnterPlay, i) \in {"phase", "join", "write"}
      BY <3>3, <3>4, Named DEF Kind
    <3>6. ASSUME NEW i \in 1..Len(EnterPlay)
          PROVE  EnterPlay[i] # Write("LoginPluginRequest")
      <4>1. EnterPlay[i][1] = "phase" \/ EnterPlay[i][2] # "LoginPluginRequest"
        BY <3>3, <3>4, Named
      <4>. QED BY <4>1, Named
    <3>. QED BY <3>1, <3>2, <3>5, <3>6, <1>6
  <2>3. CASE HandlePing
    <3>1. PICK t \in {"StatusResponse", "PongResponse"} : steps' = <<Write(t)>>
      BY <2>3 DEF HandlePing
    <3>2. t \in Written \ {"LoginSuccess", "EncryptionRequest"} /\ Belongs(t, "status")
      BY DEF Written, Belongs
    <3>3. Len(steps') = 1 /\ Kind(steps', 1) = "write" /\ What(steps', 1) = t
      BY <3>1, <3>2, OneWriteIsAProgram
    <3>4. steps'[1] # Write("LoginSuccess") /\ steps'[1] # Write("LoginPluginRequest")
      BY <3>3, Named DEF What
    <3>5. \A i \in 1..Len(steps') : i = 1
      BY <3>3
    <3>. QED BY <3>3, <3>4, <3>5 DEF SettlingInv
  <2>. QED BY <2>1, <2>2, <2>3
<1>. QED BY <1>1, <1>2, <1>3, <1>5, <1>7, DrivenSettles

\* A handshake says who vouches for a login, before there is one.
LEMMA HandshakeSettles ==
  ASSUME LockstepInv, SettledInv, HandleHandshake
  PROVE  SettledInv'
<1>1. /\ toServer # <<>> /\ toServer[1].type = "Handshake" /\ toServer' = Tail(toServer)
      /\ toPeer' = toPeer /\ conf' = conf /\ steps' = steps /\ steps = <<>>
      /\ UNCHANGED <<cipher, verifyToken, forwarding, profile>>
      /\ phase' = conf.intent
  BY Received DEF HandleHandshake
<1>2. toServer \in Seq(Packets) /\ conf.intent \in {"status", "login"}
  BY Types, ConfigTypes DEF LockstepInv
<1>3. phase = "handshake"
  <2>1. 1 \in 1..Len(toServer)
    BY <1>1, <1>2
  <2>. QED BY <1>1, <2>1 DEF LockstepInv, ToServerInv, Belongs
<1>4. /\ toPeer = <<>> /\ forwarded = "nobody" /\ ~forwarding /\ ~cipher /\ ~verifyToken
  BY <1>3 DEF LockstepInv, NewInv
<1>5. profile = "none" /\ ~Settled(profile)
  BY <1>3 DEF SettledInv, ProfileInv, Settled
<1>6. /\ forwarded' = "nobody" \/ forwarded' = "bungee"
      /\ forwarded' = "bungee" => ~conf.secret /\ ~conf.encryption /\ conf.peer = "bungee"
  <2>1. forwarded' = IF /\ ~conf.encryption /\ ~conf.secret
                        /\ conf.intent = "login" /\ conf.peer = "bungee"
                     THEN "bungee" ELSE forwarded
    BY DEF HandleHandshake
  <2>. QED BY <2>1, <1>4
<1>7. VouchInv'
  BY <1>1, <1>4, <1>6 DEF VouchInv
<1>8. \A t : Holds(toServer', t) => Holds(toServer, t)
  BY <1>1, <1>2, RestHolds
<1>9. ProfileInv'
  <2>1. \A t : ~Holds(toPeer', t)
    BY <1>1, <1>4, EmptyHolds
  <2>2. phase' = "login" /\ ~conf'.secret /\ ~conf'.encryption /\ conf'.peer = "bungee" =>
          forwarded' = "bungee"
    BY <1>1 DEF HandleHandshake
  <2>3. phase' \notin {"handshake", "configuration", "play"}
    BY <1>1, <1>2
  <2>4. /\ Holds(toServer', "LoginAcknowledged") => Settled(profile)'
        /\ Holds(toServer', "ForwardingSigned") => conf'.peer = "modern"
        /\ Holds(toServer', "ForwardingUnknown") => conf'.peer \notin {"modern", "impostor"}
        /\ \A t \in EncryptionAnswers : Holds(toServer', t) => conf'.peer = "player"
    BY <1>1, <1>5, <1>8 DEF SettledInv, ProfileInv
  <2>5. forwarded' # "modern"
    BY <1>6
  <2>. QED BY <2>1, <2>2, <2>3, <2>4, <2>5 DEF ProfileInv
<1>10. SettlingInv' /\ OnlineModeTruthful'
  <2>1. (\A i \in 1..Len(steps') : FALSE) /\ (\A i \in 1..Len(toPeer') : FALSE)
    BY <1>1, <1>4
  <2>. QED BY <2>1 DEF SettlingInv, OnlineModeTruthful
<1>. QED BY <1>7, <1>9, <1>10 DEF SettledInv

\* The peer answers a login success, and a forwarding request, as who it is.
LEMMA AnswersSettle ==
  ASSUME LockstepInv, SettledInv, PeerAnswers
  PROVE  SettledInv'
<1>1. /\ toPeer # <<>> /\ toPeer' = Tail(toPeer)
      /\ UNCHANGED <<conf, phase, cipher, verifyToken, forwarding, forwarded, profile, steps>>
  BY DEF PeerAnswers, client, loop
<1>2. toServer \in Seq(Packets) /\ toPeer \in Seq(Packets)
  BY Types DEF LockstepInv
<1>3. \A t : Holds(toPeer, t) <=> toPeer[1].type = t \/ Holds(toPeer', t)
  BY <1>1, <1>2, RestHolds
<1>4. VouchInv'
  BY <1>1, VouchSame DEF SettledInv
<1>5. (Settled(profile)' <=> Settled(profile)) /\ (CanAskProxy' <=> CanAskProxy)
  BY <1>1, ProfileSame
<1>6. SettlingInv'
  BY <1>1, SettlingSame DEF SettledInv
<1>7. OnlineModeTruthful'
  <2>1. \A i \in 1..Len(toPeer') : i + 1 \in 1..Len(toPeer) /\ toPeer'[i] = toPeer[i + 1]
    BY <1>1, <1>2, Rest
  <2>. QED BY <2>1, <1>1 DEF SettledInv, OnlineModeTruthful
<1>8. ProfileInv'
  <2>1. CASE toServer' = toServer
    BY <2>1, <1>1, <1>3, <1>5 DEF SettledInv, ProfileInv
  <2>2. CASE toServer' # toServer
    <3>1. PICK a \in Answer(toPeer[1]) : \E r \in Packets :
            /\ r.type = a /\ toServer' = Append(toServer, r)
            /\ a \in EncryptionAnswers => conf.peer = "player"
      BY <2>2, Replied
    <3>2. PICK r \in Packets : r.type = a /\ toServer' = Append(toServer, r)
      BY <3>1
    <3>3. \A t : Holds(toServer', t) <=> Holds(toServer, t) \/ a = t
      BY <3>2, <1>2, GrownHolds
    <3>4. /\ a = "LoginAcknowledged" => toPeer[1].type = "LoginSuccess"
          /\ a = "ForwardingSigned" => conf.peer = "modern"
          /\ a = "ForwardingUnknown" => conf.peer \notin {"modern", "impostor"}
          /\ a \in EncryptionAnswers => conf.peer = "player"
          /\ a # "LoginStart"
      BY <3>1, Answers DEF EncryptionAnswers
    <3>5. a = "LoginAcknowledged" => Settled(profile)
      BY <3>4, <1>3 DEF SettledInv, ProfileInv
    <3>. QED BY <3>3, <3>4, <3>5, <1>1, <1>3, <1>5 DEF SettledInv, ProfileInv
  <2>. QED BY <2>1, <2>2
<1>. QED BY <1>4, <1>6, <1>7, <1>8 DEF SettledInv

\* The steps of a handler: the profile is settled by the first of them, and the
\* phase changes, and login success goes out, after it.
LEMMA StepsSettle ==
  ASSUME LockstepInv, SettledInv, Step
  PROVE  SettledInv'
<1>1. ASSUME steps # <<>>
      PROVE  /\ Head(steps) = steps[1] /\ 1 \in 1..Len(steps) /\ steps[1] \in StepSet
             /\ Kind(steps, 1) = Head(steps)[1] /\ What(steps, 1) = Head(steps)[2]
             /\ Kind(steps, 1) # "phase" => Fits(steps[1], phase)
  BY <1>1, NextStep
<1>2. ASSUME steps' = <<>>,
             UNCHANGED <<conf, phase, forwarding, forwarded, profile, cipher, verifyToken,
                         toServer, toPeer>>
      PROVE  SettledInv'
  <2>1. SettlingInv'
    BY <1>2, LoginSettles
  <2>. QED BY <1>2, <2>1, StillSettles DEF SettledInv
<1>3. ASSUME NEW t \in Written \cup {"SetCompression"}, Send(t), steps # <<>>,
             steps' = Tail(steps), Kind(steps, 1) \notin {"phase", "profile"},
             UNCHANGED <<conf, phase, cipher, verifyToken, forwarding, forwarded, profile,
                         toServer>>,
             t \in {"LoginSuccess", "LoginPluginRequest"} => steps[1] = Write(t),
             t = "Login" => phase = "play"
      PROVE  SettledInv'
  <2>1. /\ t = "LoginSuccess" => Settled(profile)
        /\ t = "LoginPluginRequest" => CanAskProxy
    BY <1>1, <1>3 DEF SettledInv, SettlingInv
  <2>2. SettlingInv'
    BY <1>3, StepSettles DEF SettledInv
  <2>3. VouchInv' /\ ProfileInv' /\ OnlineModeTruthful'
    BY <2>1, <1>3, SendSettles
  <2>. QED BY <2>2, <2>3 DEF SettledInv
<1>4. CASE StepWrite
  <2>1. steps # <<>> /\ Head(steps)[1] = "write"
    BY <1>4 DEF StepWrite, AtStep
  <2>2. /\ Head(steps)[2] \in Written /\ steps[1] = Write(Head(steps)[2])
        /\ Belongs(Head(steps)[2], phase) /\ Kind(steps, 1) = "write"
    BY <2>1, <1>1, StepKinds DEF Fits
  <2>3. Head(steps)[2] = "Login" => phase = "play"
    BY <2>2 DEF Belongs
  <2>4. /\ \/ steps' = <<>> /\ toPeer' = toPeer
           \/ steps' = Tail(steps) /\ Send(Head(steps)[2])
        /\ UNCHANGED <<conf, phase, cipher, verifyToken, forwarding, forwarded, profile,
                       toServer>>
    BY <1>4 DEF StepWrite
  <2>. QED BY <2>1, <2>2, <2>3, <2>4, <1>2, <1>3
<1>5. CASE StepCompress
  <2>1. steps # <<>> /\ Kind(steps, 1) = "compress"
    BY <1>1, <1>5 DEF StepCompress, AtStep
  <2>2. /\ \/ steps' = <<>> /\ toPeer' = toPeer
           \/ steps' = Tail(steps) /\ Send("SetCompression")
        /\ UNCHANGED <<conf, phase, cipher, verifyToken, forwarding, forwarded, profile,
                       toServer>>
    BY <1>5 DEF StepCompress
  <2>. QED BY <2>1, <2>2, <1>2, <1>3
<1>6. CASE StepPhase
  <2>1. steps # <<>> /\ Kind(steps, 1) = "phase"
    BY <1>1, <1>6 DEF StepPhase, AtStep
  <2>2. /\ steps' = Tail(steps) /\ phase' = What(steps, 1)
        /\ UNCHANGED <<conf, cipher, verifyToken, forwarding, forwarded, profile, toServer, toPeer>>
    BY <2>1, <1>1, <1>6 DEF StepPhase, wires
  <2>3. phase' \in {"configuration", "play"} /\ Settled(profile)
    BY <2>1, <2>2, <1>1, StepKinds DEF SettledInv, SettlingInv
  <2>4. SettlingInv'
    BY <2>1, <2>2, StepSettles DEF SettledInv
  <2>. QED BY <2>2, <2>3, <2>4, StillSettles DEF SettledInv
<1>7. CASE StepProfile
  <2>1. steps # <<>> /\ Kind(steps, 1) = "profile"
    BY <1>1, <1>7 DEF StepProfile, AtStep
  <2>2. /\ steps' = Tail(steps) /\ profile' = What(steps, 1)
        /\ UNCHANGED <<conf, phase, cipher, verifyToken, forwarding, forwarded, toServer, toPeer>>
    BY <2>1, <1>1, <1>7 DEF StepProfile, wires
  <2>3. SettlingInv'
    BY <2>1, <2>2, StepSettles DEF SettledInv
  <2>4. Settled(profile)'
    <3>1. Settled(What(steps, 1))
      BY <2>1, <1>1 DEF SettledInv, SettlingInv
    <3>2. Settled(profile')
      BY <3>1, <2>2
    <3>. QED BY <3>2, <2>2, SettlerSame DEF Settled
  <2>5. phase = "login"
    BY <2>1, <1>1 DEF Fits
  <2>6. VouchInv' /\ ProfileInv'
    <3>1. VouchInv'
      BY <2>2, VouchSame DEF SettledInv
    <3>2. CanAskProxy' <=> CanAskProxy
      BY <2>2, SettlerSame
    <3>. QED BY <2>2, <2>4, <2>5, <3>1, <3>2 DEF SettledInv, ProfileInv
  <2>7. OnlineModeTruthful'
    <3>1. ASSUME NEW i \in 1..Len(toPeer) PROVE toPeer[i].type # "Login"
      BY <2>5 DEF LockstepInv, ToPeerInv, Belongs
    <3>. QED BY <3>1, <2>2 DEF OnlineModeTruthful
  <2>. QED BY <2>3, <2>6, <2>7 DEF SettledInv
<1>8. CASE StepEncrypt
  <2>1. steps # <<>> /\ Kind(steps, 1) = "encrypt"
    BY <1>1, <1>8 DEF StepEncrypt, AtStep
  <2>2. /\ \/ steps' = <<>> /\ verifyToken' = verifyToken
           \/ steps' = Tail(steps)
        /\ UNCHANGED <<conf, phase, cipher, forwarding, forwarded, profile, toServer, toPeer>>
    BY <1>8 DEF StepEncrypt, wires
  <2>3. conf.encryption /\ NoProxy
    BY <2>1, <1>1 DEF SettledInv, SettlingInv
  <2>4. CASE steps' = <<>> /\ verifyToken' = verifyToken
    BY <2>2, <2>4, <1>2
  <2>5. CASE steps' = Tail(steps)
    <3>1. SettlingInv'
      BY <2>1, <2>2, <2>5, StepSettles DEF SettledInv
    <3>. QED BY <2>2, <2>3, <3>1, StillSettles DEF SettledInv
  <2>. QED BY <2>2, <2>4, <2>5
<1>9. CASE StepAuthenticate
  <2>1. steps # <<>> /\ Kind(steps, 1) = "authenticate"
    BY <1>1, <1>9 DEF StepAuthenticate, AtStep
  <2>2. UNCHANGED <<conf, phase, cipher, verifyToken, forwarding, forwarded, profile, toServer,
                    toPeer>>
    BY <1>9 DEF StepAuthenticate, client, wires
  <2>3. cipher /\ Settler = "mojang"
    <3>1. cipher
      BY <2>1, <1>1 DEF LockstepInv, StepsInv
    <3>2. conf.encryption /\ NoProxy /\ conf.peer = "player"
      BY <3>1 DEF SettledInv, VouchInv
    <3>. QED BY <3>1, <3>2 DEF Settler, NoProxy
  <2>4. Settled("mojang")'
    BY <2>2, <2>3, SettlerSame DEF Settled
  <2>5. SettlingInv'
    BY <2>2, <2>4, <1>9, LoginSettles DEF StepAuthenticate
  <2>. QED BY <2>2, <2>5, StillSettles DEF SettledInv
<1>10. CASE StepJoin
  <2>1. steps # <<>> /\ Kind(steps, 1) = "join"
    BY <1>1, <1>10 DEF StepJoin, AtStep
  <2>2. /\ steps' = Tail(steps)
        /\ UNCHANGED <<conf, phase, cipher, verifyToken, forwarding, forwarded, profile,
                       toServer, toPeer>>
    BY <1>10 DEF StepJoin, client, wires
  <2>3. SettlingInv'
    BY <2>1, <2>2, StepSettles DEF SettledInv
  <2>. QED BY <2>2, <2>3, StillSettles DEF SettledInv
<1>. QED BY <1>4, <1>5, <1>6, <1>7, <1>8, <1>9, <1>10 DEF Step

\* What neither settles a login nor is sent on its strength.
LEMMA OthersSettle ==
  ASSUME LockstepInv, SettledInv,
         \/ HandleKeepAlive \/ HandleNothing \/ EndOfRun \/ LeaveRoster \/ Close
         \/ Sweep \/ PeerOpens \/ PeerStops \/ UNCHANGED vars
  PROVE  SettledInv'
<1>1. /\ UNCHANGED <<conf, phase, cipher, verifyToken, forwarding, forwarded, profile>>
      /\ steps' = steps
  BY Received DEF HandleKeepAlive, HandleNothing, EndOfRun, LeaveRoster, Close, Sweep, PeerOpens,
     PeerStops, vars, client, loop
<1>2. SettlingInv' /\ VouchInv'
  BY <1>1, SettlingSame, VouchSame DEF SettledInv
<1>3. (Settled(profile)' <=> Settled(profile)) /\ (CanAskProxy' <=> CanAskProxy)
  BY <1>1, ProfileSame
<1>4. ASSUME toPeer' = toPeer,
             \A t \in {"LoginAcknowledged", "ForwardingSigned", "ForwardingUnknown"}
                      \cup EncryptionAnswers :
               Holds(toServer', t) => Holds(toServer, t),
             Holds(toServer', "LoginStart") => Holds(toServer, "LoginStart") \/ forwarded # "modern"
      PROVE  SettledInv'
  BY <1>1, <1>2, <1>3, <1>4 DEF SettledInv, ProfileInv, OnlineModeTruthful
<1>5. CASE HandleKeepAlive \/ HandleNothing
  <2>1. toServer # <<>> /\ toServer' = Tail(toServer) /\ toPeer' = toPeer
    <3>1. CASE HandleKeepAlive
      BY <3>1, Received DEF HandleKeepAlive
    <3>. QED BY <3>1, <1>5 DEF HandleNothing
  <2>2. toServer \in Seq(Packets)
    BY Types DEF LockstepInv
  <2>3. \A t : Holds(toServer', t) => Holds(toServer, t)
    BY <2>1, <2>2, RestHolds
  <2>. QED BY <2>1, <2>3, <1>4
<1>6. CASE EndOfRun \/ LeaveRoster \/ Close \/ PeerStops \/ UNCHANGED vars
  <2>1. toPeer' = toPeer /\ toServer' = toServer
    BY <1>6 DEF EndOfRun, LeaveRoster, Close, PeerStops, vars, wires
  <2>. QED BY <2>1, <1>4
<1>7. CASE Sweep
  <2>1. toServer' = toServer /\ (toPeer' = toPeer \/ Send("KeepAlive"))
    BY <1>7 DEF Sweep
  <2>2. CASE toPeer' = toPeer
    BY <2>1, <2>2, <1>4
  <2>3. CASE Send("KeepAlive")
    BY <2>1, <2>3, <1>1, <1>2, SendSettles DEF SettledInv
  <2>. QED BY <2>1, <2>2, <2>3
<1>8. CASE PeerOpens
  <2>1. toPeer' = toPeer /\ peer = "new"
    BY <1>8 DEF PeerOpens
  <2>2. forwarded = "nobody"
    BY <2>1 DEF LockstepInv, NewInv
  <2>3. \A i \in 1..Len(toServer') : toServer'[i].type \in {"Handshake", "LoginStart", "StatusRequest"}
    <3>1. PICK t \in {"LoginStart", "StatusRequest"} :
            toServer' = <<Packet("Handshake", "handshake", FALSE, FALSE, FALSE),
                          Packet(t, conf.intent, FALSE, FALSE, FALSE)>>
      BY <1>8 DEF PeerOpens
    <3> DEFINE a == Packet("Handshake", "handshake", FALSE, FALSE, FALSE)
               b == Packet(t, conf.intent, FALSE, FALSE, FALSE)
    <3>2. a.type = "Handshake" /\ b.type = t
      BY DEF Packet
    <3> HIDE DEF a, b
    <3>3. toServer' = <<a, b>>
      BY <3>1 DEF a, b
    <3>4. Len(toServer') = 2 /\ toServer'[1] = a /\ toServer'[2] = b
      BY <3>3
    <3>5. \A i \in 1..2 : i = 1 \/ i = 2
      OBVIOUS
    <3>. QED BY <3>2, <3>4, <3>5
  <2>4. \A t \in {"LoginAcknowledged", "ForwardingSigned", "ForwardingUnknown"}
                 \cup EncryptionAnswers : ~Holds(toServer', t)
    BY <2>3 DEF Holds, EncryptionAnswers
  <2>. QED BY <2>1, <2>2, <2>4, <1>4
<1>. QED BY <1>5, <1>6, <1>7, <1>8

\* Whatever happens, a login is settled by whom this server asks.
LEMMA NextSettled ==
  ASSUME LockstepInv, SettledInv, [Next]_vars
  PROVE  SettledInv'
  BY StepsSettle, HandshakeSettles, LoginStartSettles, ForwardingSettles, EncryptionSettles,
     GoingOnSettles, OthersSettle, AnswersSettle DEF Next, Handle

\* For every configuration, version and peer there is one whose word settles the
\* login, or nobody: the proxy that signs where the version can be asked, Mojang
\* where the server encrypts, the handshake's proxy or the player otherwise. No
\* login gets past its phase on any other, nobody is asked what cannot be
\* answered, and the client is told so exactly where somebody vouched.
THEOREM SettledByWhomItAsksAlways == Spec => []SettledByWhomItAsks
<1>1. Init => SettledInv
  <2> SUFFICES ASSUME Init PROVE SettledInv
    OBVIOUS
  <2>1. /\ phase = "handshake" /\ profile = "none" /\ ~forwarding /\ forwarded = "nobody"
        /\ ~verifyToken /\ ~cipher /\ steps = <<>> /\ toServer = <<>> /\ toPeer = <<>>
    BY DEF Init
  <2>2. VouchInv
    BY <2>1 DEF VouchInv
  <2>3. ProfileInv
    BY <2>1, EmptyHolds DEF ProfileInv
  <2>4. SettlingInv /\ OnlineModeTruthful
    BY <2>1 DEF SettlingInv, OnlineModeTruthful
  <2>. QED BY <2>2, <2>3, <2>4 DEF SettledInv
<1>2. LockstepInv /\ SettledInv /\ [Next]_vars => SettledInv'
  BY NextSettled
<1>3. LockstepInv /\ SettledInv => SettledByWhomItAsks
  <2> SUFFICES ASSUME LockstepInv, SettledInv PROVE SettledByWhomItAsks
    OBVIOUS
  <2>1. ASSUME phase \in {"configuration", "play"}
        PROVE  profile = Settler /\ (profile = "mojang" => cipher)
    BY <2>1 DEF SettledInv, ProfileInv, Settled
  <2>2. ASSUME NEW i \in 1..Len(toPeer), toPeer[i].type = "LoginPluginRequest"
        PROVE  CanAskProxy
    BY <2>2 DEF SettledInv, ProfileInv, Holds
  <2>3. ASSUME NEW i \in 1..Len(toPeer), toPeer[i].type = "EncryptionRequest"
        PROVE  conf.encryption
    <3>1. verifyToken
      BY <2>3 DEF LockstepInv, ToPeerInv
    <3>. QED BY <3>1 DEF SettledInv, VouchInv
  <2>. QED BY <2>1, <2>2, <2>3 DEF SettledInv, SettledByWhomItAsks
<1>. QED BY <1>1, <1>2, <1>3, AlwaysLockstep, PTL DEF Spec
===============================================================================
