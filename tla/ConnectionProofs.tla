--------------------------- MODULE ConnectionProofs ---------------------------
(* What holds of every connection, whatever the window, the timing and the    *)
(* peer: its types, that both ends understand what they read, and that it     *)
(* ends uncounted.                                                            *)
(*                                                                            *)
(* First, what the handlers of Connection consist of: every one is a program, *)
(* a sequence of steps that fit the phases they are taken in and ask for an   *)
(* answer with the last of them, and so is what is left of it after a step.   *)
EXTENDS Connection, SequenceTheorems, TLAPS

-------------------------------------------------------------------------------
(* Packets and steps, by what they may follow.                                *)

\* What either end may write in a phase.
Belongs(t, ph) ==
  \/ ph = "handshake" /\ t = "Handshake"
  \/ ph = "status" /\ t \in {"StatusRequest", "PingRequest", "StatusResponse", "PongResponse"}
  \/ ph = "login" /\ t \in {"LoginStart", "EncryptionResponse", "SignedChallenge",
                            "ForwardingSigned", "ForwardingUnsigned", "ForwardingUnknown",
                            "LoginAcknowledged", "EncryptionRequest", "LoginPluginRequest",
                            "SetCompression", "LoginSuccess", "Disconnect"}
  \/ ph = "configuration" /\ t \in {"AcknowledgeFinish", "Registries",
                                    "FinishConfiguration", "KeepAlive"}
  \/ ph = "play" /\ t \in {"KeepAlive", "MovePlayer", "Login", "Tags", "PlayerPosition",
                           "PlayerInfo", "GameEvent", "Chunks"}

\* What the server sends to be answered, and to go on by the answer.
Asking(t, v) ==
  \/ t \in {"EncryptionRequest", "LoginPluginRequest", "StatusResponse",
            "FinishConfiguration"}
  \/ t = "LoginSuccess" /\ HasConfigurationPhase(v)

\* What a step does, and to what.
Kind(s, i) == s[i][1]
What(s, i) == s[i][2]

\* What a step does belongs to the phase it is taken in.
Fits(st, ph) ==
  \/ st[1] = "write" /\ Belongs(st[2], ph)
  \/ st[1] \in {"profile", "compress", "encrypt", "authenticate"} /\ ph = "login"
  \/ st[1] = "join" /\ ph = "play"

\* A handler changes the phase once if at all: what it does before fits the phase
\* it starts in, and what it does after the phase it changes to.
FitsItsPhase(s, ph) ==
  /\ (\A i \in 1..Len(s) : Kind(s, i) # "phase") => \A i \in 1..Len(s) : Fits(s[i], ph)
  /\ \A k \in 1..Len(s) : Kind(s, k) = "phase" =>
       /\ \A i \in 1..(k - 1) : Fits(s[i], ph)
       /\ \A i \in (k + 1)..Len(s) : Fits(s[i], What(s, k))

\* It asks with the last thing it does, settles the profile with the first, and
\* goes to play straight after a login success that nobody acknowledges.
InOrder(s, ph, v) ==
  \A i \in 1..Len(s) :
    /\ Kind(s, i) = "write" =>
         /\ Asking(What(s, i), v) => i = Len(s)
         /\ What(s, i) = "LoginSuccess" /\ ~HasConfigurationPhase(v) =>
              i < Len(s) /\ s[i + 1] = SetPhase("play")
         /\ What(s, i) = "EncryptionRequest" => i <= 2 /\ (i = 2 => Kind(s, 1) = "encrypt")
    /\ Kind(s, i) \in {"profile", "encrypt", "authenticate"} => i = 1
    /\ Kind(s, i) = "encrypt" => Len(s) = 2 /\ s[2] = Write("EncryptionRequest")
    /\ Kind(s, i) = "authenticate" => Len(s) = 1
    /\ Kind(s, i) = "phase" =>
         \/ i = 1
         \/ /\ s[i - 1] = Write("LoginSuccess") /\ ph = "login"
            /\ What(s, i) = "play" /\ ~HasConfigurationPhase(v)

Program(s, ph, v) == /\ s \in Seq(StepSet)
                     /\ FitsItsPhase(s, ph)
                     /\ InOrder(s, ph, v)

-------------------------------------------------------------------------------
(* The handlers are such programs.                                            *)

\* Where everything is in a concatenation.
LEMMA Places ==
  ASSUME NEW S, NEW s \in Seq(S), NEW t \in Seq(S)
  PROVE  /\ s \o t \in Seq(S) /\ Len(s \o t) = Len(s) + Len(t)
         /\ \A i \in 1..Len(s) : (s \o t)[i] = s[i]
         /\ \A i \in 1..Len(t) : (s \o t)[Len(s) + i] = t[i]
  OBVIOUS

\* What a sequence that is written out holds.
LEMMA WrittenOut ==
  ASSUME NEW S, NEW a \in S, NEW b \in S, NEW c \in S, NEW d \in S, NEW e \in S
  PROVE  /\ <<>> \in Seq(S) /\ Len(<<>>) = 0
         /\ <<a>> \in Seq(S) /\ Len(<<a>>) = 1 /\ <<a>>[1] = a
         /\ <<a, b>> \in Seq(S) /\ Len(<<a, b>>) = 2
         /\ <<a, b>>[1] = a /\ <<a, b>>[2] = b
         /\ <<a, b, c>> \in Seq(S) /\ Len(<<a, b, c>>) = 3
         /\ <<a, b, c>>[1] = a /\ <<a, b, c>>[2] = b /\ <<a, b, c>>[3] = c
         /\ <<a, b, c, d, e>> \in Seq(S) /\ Len(<<a, b, c, d, e>>) = 5
         /\ <<a, b, c, d, e>>[1] = a /\ <<a, b, c, d, e>>[2] = b
         /\ <<a, b, c, d, e>>[3] = c /\ <<a, b, c, d, e>>[4] = d
         /\ <<a, b, c, d, e>>[5] = e
  OBVIOUS

\* The steps that handlers are made of.
LEMMA Steps ==
  /\ SetPhase("play") \in StepSet /\ SetPhase("configuration") \in StepSet
  /\ \A source \in {"offline", "bungee", "modern", "mojang"} : SetProfile(source) \in StepSet
  /\ \A t \in Written : Write(t) \in StepSet
  /\ <<"compress", "SetCompression">> \in StepSet /\ <<"encrypt", "">> \in StepSet
  /\ <<"authenticate", "">> \in StepSet /\ <<"join", "">> \in StepSet
  BY DEF StepSet, SetPhase, SetProfile, Write

\* What a step is called, and what it writes or sets.
LEMMA Named ==
  /\ \A x : /\ SetPhase(x)[1] = "phase" /\ SetPhase(x)[2] = x
            /\ SetProfile(x)[1] = "profile" /\ SetProfile(x)[2] = x
            /\ Write(x)[1] = "write" /\ Write(x)[2] = x
  /\ <<"compress", "SetCompression">>[1] = "compress"
  /\ <<"encrypt", "">>[1] = "encrypt" /\ <<"authenticate", "">>[1] = "authenticate"
  /\ <<"join", "">>[1] = "join"
  BY DEF SetPhase, SetProfile, Write

\* Joining the roster writes nothing.
LEMMA JoinWritesNothing == <<"join", "">>[1] = "join" /\ <<"join", "">>[2] \notin Written
  BY DEF Written

\* The steps that take a connection into play: the change of phase, and then
\* what belongs there.
LEMMA EnterPlaySteps ==
  /\ EnterPlay \in Seq(StepSet) /\ Len(EnterPlay) \in {7, 8}
  /\ EnterPlay[1] = SetPhase("play")
  /\ \A i \in 2..Len(EnterPlay) :
       /\ \/ EnterPlay[i][1] = "join" /\ EnterPlay[i][2] \notin Written
          \/ /\ EnterPlay[i][1] = "write"
             /\ EnterPlay[i][2] \in {"Login", "Tags", "PlayerPosition", "PlayerInfo",
                                     "GameEvent", "Chunks"}
<1> DEFINE p == SetPhase("play")
           l == Write("Login")
           t == Write("Tags")
           c1 == Write("PlayerPosition")
           c2 == Write("PlayerInfo")
           c3 == Write("GameEvent")
           c4 == Write("Chunks")
           c5 == <<"join", "">>
           a == <<p, l>>
           b == IF HasConfigurationPhase(conf.version) THEN <<>> ELSE <<t>>
           c == <<c1, c2, c3, c4, c5>>
<1>1. EnterPlay = (a \o b) \o c
  BY DEF EnterPlay
<1>. /\ p \in StepSet /\ l \in StepSet /\ t \in StepSet /\ c1 \in StepSet /\ c2 \in StepSet
     /\ c3 \in StepSet /\ c4 \in StepSet /\ c5 \in StepSet
  BY Steps DEF Written
<1> HIDE DEF p, l, t, c1, c2, c3, c4, c5
<1>2. a \in Seq(StepSet) /\ Len(a) = 2 /\ a[1] = p /\ a[2] = l
  BY WrittenOut
<1>3. b \in Seq(StepSet) /\ Len(b) \in {0, 1} /\ \A i \in 1..Len(b) : b[i] = t
  BY WrittenOut
<1>4. /\ c \in Seq(StepSet) /\ Len(c) = 5
      /\ c[1] = c1 /\ c[2] = c2 /\ c[3] = c3 /\ c[4] = c4 /\ c[5] = c5
  BY WrittenOut
<1> HIDE DEF a, b, c
<1>5. /\ a \o b \in Seq(StepSet) /\ Len(a \o b) = 2 + Len(b)
      /\ \A i \in 1..2 : (a \o b)[i] = a[i]
      /\ \A i \in 1..Len(b) : (a \o b)[2 + i] = b[i]
  <2>1. a \in Seq(StepSet) /\ b \in Seq(StepSet)
    BY <1>2, <1>3
  <2>2. /\ a \o b \in Seq(StepSet) /\ Len(a \o b) = Len(a) + Len(b)
        /\ \A i \in 1..Len(a) : (a \o b)[i] = a[i]
        /\ \A i \in 1..Len(b) : (a \o b)[Len(a) + i] = b[i]
    BY <2>1, Places
  <2>. QED BY <2>2, <1>2
<1> DEFINE ab == a \o b
<1> HIDE DEF ab
<1>6. /\ EnterPlay \in Seq(StepSet) /\ Len(EnterPlay) = 7 + Len(b)
      /\ \A i \in 1..(2 + Len(b)) : EnterPlay[i] = ab[i]
      /\ \A i \in 1..5 : EnterPlay[2 + Len(b) + i] = c[i]
  <2>1. ab \in Seq(StepSet) /\ Len(ab) = 2 + Len(b) /\ EnterPlay = ab \o c
    BY <1>1, <1>5 DEF ab
  <2>2. Len(b) \in {0, 1}
    BY <1>3
  <2>3. /\ ab \o c \in Seq(StepSet) /\ Len(ab \o c) = Len(ab) + Len(c)
        /\ \A i \in 1..Len(ab) : (ab \o c)[i] = ab[i]
        /\ \A i \in 1..Len(c) : (ab \o c)[Len(ab) + i] = c[i]
    <3>1. ab \in Seq(StepSet) /\ c \in Seq(StepSet)
      BY <2>1, <1>4
    <3>. QED BY <3>1, Places
  <2>. QED BY <2>1, <2>2, <2>3, <1>4
<1>7. EnterPlay[1] = SetPhase("play") /\ EnterPlay[2] = Write("Login")
  BY <1>2, <1>3, <1>5, <1>6 DEF ab, p, l
<1>8. ASSUME NEW i \in 3..Len(EnterPlay)
      PROVE  \/ EnterPlay[i] = t
             \/ \E j \in 1..5 : EnterPlay[i] = c[j]
  <2>1. CASE i <= 2 + Len(b)
    <3>1. i - 2 \in 1..Len(b) /\ 2 + (i - 2) = i
      BY <2>1, <1>3
    <3>2. i \in 1..(2 + Len(b))
      BY <2>1, <1>3
    <3>3. EnterPlay[i] = (a \o b)[i]
      BY <3>2, <1>6 DEF ab
    <3>4. (a \o b)[2 + (i - 2)] = b[i - 2] /\ b[i - 2] = t
      BY <3>1, <1>3, <1>5
    <3>. QED BY <3>1, <3>3, <3>4
  <2>2. CASE i > 2 + Len(b)
    <3>1. i - (2 + Len(b)) \in 1..5 /\ 2 + Len(b) + (i - (2 + Len(b))) = i
      BY <2>2, <1>3, <1>6
    <3>. QED BY <3>1, <1>6
  <2>. QED BY <2>1, <2>2, <1>3, <1>6
<1>9. ASSUME NEW i \in 2..Len(EnterPlay)
      PROVE  \/ EnterPlay[i] = <<"join", "">>
             \/ \E x \in {"Login", "Tags", "PlayerPosition", "PlayerInfo", "GameEvent",
                          "Chunks"} : EnterPlay[i] = Write(x)
  <2>1. CASE i = 2
    BY <2>1, <1>7
  <2>2. CASE i # 2
    <3>1. i \in 3..Len(EnterPlay)
      BY <2>2, <1>3, <1>6
    <3>2. EnterPlay[i] \in {t, c1, c2, c3, c4, c5}
      BY <3>1, <1>8, <1>4
    <3>. QED BY <3>2 DEF t, c1, c2, c3, c4, c5
  <2>. QED BY <2>1, <2>2
<1>10. Len(EnterPlay) \in {7, 8}
  <2>1. Len(EnterPlay) = 7 + Len(b)
    BY <1>6
  <2>2. Len(b) \in {0, 1} /\ \A n \in {0, 1} : 7 + n \in {7, 8}
    BY <1>3
  <2>. QED BY <2>1, <2>2, Zenon
<1>11. ASSUME NEW i \in 2..Len(EnterPlay)
       PROVE  \/ EnterPlay[i][1] = "join" /\ EnterPlay[i][2] \notin Written
              \/ /\ EnterPlay[i][1] = "write"
                 /\ EnterPlay[i][2] \in {"Login", "Tags", "PlayerPosition", "PlayerInfo",
                                         "GameEvent", "Chunks"}
  <2>1. CASE EnterPlay[i] = <<"join", "">>
    BY <2>1, JoinWritesNothing
  <2>2. ASSUME NEW x \in {"Login", "Tags", "PlayerPosition", "PlayerInfo", "GameEvent",
                          "Chunks"}, EnterPlay[i] = Write(x)
        PROVE  EnterPlay[i][1] = "write" /\ EnterPlay[i][2] = x
    BY <2>2, Named
  <2>. QED BY <1>9, <2>1, <2>2
<1>. QED BY <1>6, <1>7, <1>10, <1>11

\* What entering play consists of is a handler's steps, in either phase that is
\* left for it.
LEMMA EnterPlayIsAProgram ==
  ASSUME NEW ph
  PROVE  Program(EnterPlay, ph, conf.version)
<1> DEFINE s == EnterPlay
<1>1. /\ s \in Seq(StepSet) /\ Len(s) \in {7, 8} /\ s[1] = SetPhase("play")
      /\ \A i \in 2..Len(s) :
           \/ s[i][1] = "join" /\ s[i][2] \notin Written
           \/ /\ s[i][1] = "write"
              /\ s[i][2] \in {"Login", "Tags", "PlayerPosition", "PlayerInfo",
                              "GameEvent", "Chunks"}
  BY EnterPlaySteps
<1> HIDE DEF s
<1>2. /\ Kind(s, 1) = "phase" /\ What(s, 1) = "play"
      /\ \A i \in 2..Len(s) : Kind(s, i) \in {"join", "write"}
  BY <1>1, Named DEF Kind, What
<1>3. \A i \in 2..Len(s) : Fits(s[i], "play")
  BY <1>1 DEF Fits, Belongs
<1>4. FitsItsPhase(s, ph)
  BY <1>1, <1>2, <1>3 DEF FitsItsPhase
<1>5. InOrder(s, ph, conf.version)
  <2>1. ASSUME NEW i \in 2..Len(s), Kind(s, i) = "write"
        PROVE  What(s, i) \notin {"LoginSuccess", "EncryptionRequest"}
               /\ ~Asking(What(s, i), conf.version)
    BY <2>1, <1>1 DEF Kind, What, Asking
  <2>. QED BY <2>1, <1>1, <1>2 DEF InOrder
<1>. QED BY <1>1, <1>4, <1>5 DEF Program, s

\* Completing a login settles the profile, announces the threshold where there
\* is one and sends login success, and where nobody acknowledges that enters play.
LEMMA CompleteLoginSteps ==
  ASSUME NEW source \in {"offline", "bungee", "modern", "mojang"}
  PROVE  \E m \in {2, 3} :
           /\ CompleteLogin(source) \in Seq(StepSet)
           /\ Len(CompleteLogin(source)) =
                m + (IF HasConfigurationPhase(conf.version) THEN 0 ELSE Len(EnterPlay))
           /\ CompleteLogin(source)[1] = SetProfile(source)
           /\ m = 3 => CompleteLogin(source)[2] = <<"compress", "SetCompression">>
           /\ CompleteLogin(source)[m] = Write("LoginSuccess")
           /\ ~HasConfigurationPhase(conf.version) =>
                \A i \in 1..Len(EnterPlay) : CompleteLogin(source)[m + i] = EnterPlay[i]
<1> DEFINE p == SetProfile(source)
           z == <<"compress", "SetCompression">>
           w == Write("LoginSuccess")
           a == <<p>>
           b == IF HasCompression(conf.version) THEN <<z>> ELSE <<>>
           c == <<w>>
           d == IF HasConfigurationPhase(conf.version) THEN <<>> ELSE EnterPlay
           s == CompleteLogin(source)
<1>1. s = ((a \o b) \o c) \o d
  BY DEF CompleteLogin
<1>2. p \in StepSet /\ z \in StepSet /\ w \in StepSet
  BY Steps DEF Written
<1> HIDE DEF p, z, w
<1>3. a \in Seq(StepSet) /\ Len(a) = 1 /\ a[1] = p
  BY <1>2, WrittenOut
<1>4. b \in Seq(StepSet) /\ Len(b) \in {0, 1} /\ (Len(b) = 1 => b[1] = z)
  BY <1>2, WrittenOut
<1>5. c \in Seq(StepSet) /\ Len(c) = 1 /\ c[1] = w
  BY <1>2, WrittenOut
<1>6. /\ d \in Seq(StepSet)
      /\ Len(d) = IF HasConfigurationPhase(conf.version) THEN 0 ELSE Len(EnterPlay)
      /\ ~HasConfigurationPhase(conf.version) => d = EnterPlay
  BY <1>2, WrittenOut, EnterPlaySteps
<1> HIDE DEF a, b, c, d, s
<1> DEFINE ab == a \o b
           abc == ab \o c
           m == Len(b) + 2
<1>7. /\ ab \in Seq(StepSet) /\ Len(ab) = Len(a) + Len(b)
      /\ \A i \in 1..Len(a) : ab[i] = a[i]
      /\ \A i \in 1..Len(b) : ab[Len(a) + i] = b[i]
  BY <1>3, <1>4, Places
<1> HIDE DEF ab
<1>8. /\ abc \in Seq(StepSet) /\ Len(abc) = Len(ab) + Len(c)
      /\ \A i \in 1..Len(ab) : abc[i] = ab[i]
      /\ \A i \in 1..Len(c) : abc[Len(ab) + i] = c[i]
  <2>1. ab \in Seq(StepSet) /\ c \in Seq(StepSet)
    BY <1>7, <1>5
  <2>. QED BY <2>1, Places
<1> HIDE DEF abc
<1>9. s = abc \o d
  BY <1>1 DEF ab, abc
<1>10. /\ s \in Seq(StepSet) /\ Len(s) = Len(abc) + Len(d)
       /\ \A i \in 1..Len(abc) : s[i] = abc[i]
       /\ \A i \in 1..Len(d) : s[Len(abc) + i] = d[i]
  <2>1. abc \in Seq(StepSet) /\ d \in Seq(StepSet)
    BY <1>8, <1>6
  <2>. QED BY <2>1, <1>9, Places
<1>11. Len(abc) = m /\ m \in {2, 3}
  BY <1>3, <1>4, <1>5, <1>7, <1>8, SMTT(30)
<1>12. s[1] = p /\ s[m] = w
  <2>1. s[1] = abc[1] /\ abc[1] = ab[1] /\ ab[1] = a[1]
    BY <1>3, <1>4, <1>5, <1>7, <1>8, <1>10, <1>11
  <2>2. s[m] = abc[m]
    BY <1>10, <1>11
  <2>3. m = Len(ab) + 1
    BY <1>3, <1>4, <1>7
  <2>4. abc[m] = c[1]
    BY <2>3, <1>8, <1>5
  <2>. QED BY <2>1, <2>2, <2>4, <1>3, <1>5
<1>13. ASSUME m = 3 PROVE s[2] = z
  <2>1. Len(b) = 1
    BY <1>13, <1>4
  <2>2. s[2] = abc[2] /\ abc[2] = ab[2]
    BY <2>1, <1>3, <1>7, <1>8, <1>10, <1>11
  <2>3. ab[2] = b[1]
    BY <2>1, <1>3, <1>7
  <2>. QED BY <2>1, <2>2, <2>3, <1>4
<1>14. ASSUME ~HasConfigurationPhase(conf.version), NEW i \in 1..Len(EnterPlay)
       PROVE  s[m + i] = EnterPlay[i]
  BY <1>14, <1>6, <1>10, <1>11
<1>15. Len(s) = m + (IF HasConfigurationPhase(conf.version) THEN 0 ELSE Len(EnterPlay))
  BY <1>6, <1>10, <1>11
<1>. HIDE DEF m
<1>. QED BY <1>10, <1>11, <1>12, <1>13, <1>14, <1>15 DEF s, p, z, w

\* Those are a handler's steps in the login phase; it begins by settling the
\* profile and asks for nothing.
LEMMA CompleteLoginIsAProgram ==
  ASSUME NEW source \in {"offline", "bungee", "modern", "mojang"}
  PROVE  /\ Program(CompleteLogin(source), "login", conf.version)
         /\ Len(CompleteLogin(source)) > 1
         /\ CompleteLogin(source)[1] = SetProfile(source)
         /\ \A i \in 2..Len(CompleteLogin(source)) :
              /\ Kind(CompleteLogin(source), i) \in {"compress", "write", "phase", "join"}
              /\ What(CompleteLogin(source), i) # "EncryptionRequest"
              /\ What(CompleteLogin(source), i) # "LoginPluginRequest"
              /\ Kind(CompleteLogin(source), i) = "phase" =>
                   What(CompleteLogin(source), i) = "play"
<1> DEFINE s == CompleteLogin(source)
           e == EnterPlay
           conf1 == HasConfigurationPhase(conf.version)
<1>1. PICK m \in {2, 3} :
        /\ s \in Seq(StepSet) /\ Len(s) = m + (IF conf1 THEN 0 ELSE Len(e))
        /\ s[1] = SetProfile(source)
        /\ m = 3 => s[2] = <<"compress", "SetCompression">>
        /\ s[m] = Write("LoginSuccess")
        /\ ~conf1 => \A i \in 1..Len(e) : s[m + i] = e[i]
  BY CompleteLoginSteps
<1>2. /\ Len(e) \in {7, 8} /\ e[1] = SetPhase("play")
      /\ \A i \in 2..Len(e) :
           \/ e[i][1] = "join" /\ e[i][2] \notin Written
           \/ /\ e[i][1] = "write"
              /\ e[i][2] \in {"Login", "Tags", "PlayerPosition", "PlayerInfo",
                              "GameEvent", "Chunks"}
  BY EnterPlaySteps
<1> HIDE DEF s, e, conf1
<1>3. /\ Kind(s, 1) = "profile" /\ What(s, 1) = source
      /\ m = 3 => Kind(s, 2) = "compress" /\ What(s, 2) = "SetCompression"
      /\ Kind(s, m) = "write" /\ What(s, m) = "LoginSuccess"
  BY <1>1, Named DEF Kind, What
<1>4. Len(s) = IF conf1 THEN m ELSE m + Len(e)
  BY <1>1, <1>2
<1>5. ~conf1 => s[m + 1] = SetPhase("play") /\ Kind(s, m + 1) = "phase" /\ What(s, m + 1) = "play"
  BY <1>1, <1>2, Named DEF Kind, What
<1>6. ASSUME NEW i \in (m + 2)..Len(s)
      PROVE  /\ \/ Kind(s, i) = "join" /\ What(s, i) \notin Written
                \/ /\ Kind(s, i) = "write"
                   /\ What(s, i) \in {"Login", "Tags", "PlayerPosition", "PlayerInfo",
                                      "GameEvent", "Chunks"}
             /\ Fits(s[i], "play")
  <2>1. ~conf1 /\ i - m \in 2..Len(e) /\ m + (i - m) = i
    BY <1>2, <1>4
  <2>2. s[i] = e[i - m]
    BY <2>1, <1>1
  <2>3. \/ s[i][1] = "join" /\ s[i][2] \notin Written
        \/ /\ s[i][1] = "write"
           /\ s[i][2] \in {"Login", "Tags", "PlayerPosition", "PlayerInfo",
                           "GameEvent", "Chunks"}
    BY <2>1, <2>2, <1>2
  <2>. QED BY <2>3 DEF Kind, What, Fits, Belongs
<1>7. What(s, 1) # "EncryptionRequest" /\ What(s, 2) # "EncryptionRequest"
  BY <1>3
<1>8. ASSUME NEW i \in 2..Len(s)
      PROVE  /\ Kind(s, i) \in {"compress", "write", "phase", "join"}
             /\ What(s, i) # "EncryptionRequest"
             /\ Kind(s, i) = "phase" <=> (i = m + 1)
             /\ What(s, i) = "LoginSuccess" <=> i = m
             /\ What(s, i) \notin {"LoginPluginRequest", "StatusResponse", "FinishConfiguration"}
  <2>1. i < m \/ i = m \/ i = m + 1 \/ i \in (m + 2)..Len(s)
    BY <1>4, <1>2
  <2>2. CASE i < m
    BY <2>2, <1>3
  <2>3. CASE i = m
    BY <2>3, <1>3
  <2>4. CASE i = m + 1
    BY <2>4, <1>4, <1>5
  <2>5. CASE i \in (m + 2)..Len(s)
    BY <2>5, <1>6 DEF Written
  <2>. QED BY <2>1, <2>2, <2>3, <2>4, <2>5
<1>9. \A i \in 1..m : Fits(s[i], "login")
  <2>1. ASSUME NEW i \in 1..m
        PROVE  i = 1 \/ i = m \/ (m = 3 /\ i = 2)
    OBVIOUS
  <2>. QED BY <2>1, <1>3 DEF Fits, Kind, What, Belongs
<1>10. FitsItsPhase(s, "login")
  <2>1. Kind(s, 1) # "phase"
    BY <1>3
  <2>2. CASE conf1
    <3>1. \A i \in 1..Len(s) : Kind(s, i) # "phase"
      BY <2>1, <2>2, <1>4, <1>8
    <3>. QED BY <2>2, <3>1, <1>4, <1>9 DEF FitsItsPhase
  <2>3. CASE ~conf1
    <3>1. m + 1 \in 1..Len(s) /\ Kind(s, m + 1) = "phase" /\ What(s, m + 1) = "play"
      BY <2>3, <1>2, <1>4, <1>5
    <3>2. \A k \in 1..Len(s) : Kind(s, k) = "phase" => k = m + 1
      BY <2>1, <1>8
    <3>. QED BY <3>1, <3>2, <1>6, <1>9 DEF FitsItsPhase
  <2>. QED BY <2>2, <2>3
<1>11. InOrder(s, "login", conf.version)
  <2>1. ASSUME NEW i \in 2..Len(s), Kind(s, i) = "write"
        PROVE  /\ Asking(What(s, i), conf.version) => i = Len(s)
               /\ What(s, i) = "LoginSuccess" /\ ~conf1 =>
                    i < Len(s) /\ s[i + 1] = SetPhase("play")
               /\ What(s, i) # "EncryptionRequest"
    <3>1. Asking(What(s, i), conf.version) => i = m /\ conf1
      BY <1>8 DEF Asking, conf1
    <3>. QED BY <3>1, <1>8, <1>2, <1>4, <1>5
  <2>2. ASSUME NEW i \in 2..Len(s), Kind(s, i) = "phase"
        PROVE  /\ s[i - 1] = Write("LoginSuccess") /\ What(s, i) = "play" /\ ~conf1
    <3>1. i = m + 1 /\ i - 1 = m /\ ~conf1
      BY <2>2, <1>8, <1>4
    <3>. QED BY <3>1, <1>1, <1>5
  <2>. QED BY <2>1, <2>2, <1>3, <1>8 DEF InOrder, conf1
<1>12. ASSUME NEW i \in 2..Len(s), Kind(s, i) = "phase"
       PROVE  What(s, i) = "play"
  BY <1>12, <1>4, <1>5, <1>8
<1>13. Len(s) > 1
  BY <1>2, <1>4
<1>. QED BY <1>1, <1>8, <1>10, <1>11, <1>12, <1>13 DEF Program, s

\* The short ones: nothing, one packet, the wait for the session server, the
\* request for encryption, and the one that goes on to the configuration phase.
LEMMA NothingIsAProgram ==
  ASSUME NEW ph, NEW v
  PROVE  Program(<<>>, ph, v)
  BY DEF Program, FitsItsPhase, InOrder

\* One packet is a program where it belongs, unless it announces more.
LEMMA OneWriteIsAProgram ==
  ASSUME NEW t \in Written \ {"LoginSuccess", "EncryptionRequest"}, NEW ph, Belongs(t, ph), NEW v
  PROVE  /\ Program(<<Write(t)>>, ph, v) /\ Len(<<Write(t)>>) = 1
         /\ Kind(<<Write(t)>>, 1) = "write" /\ What(<<Write(t)>>, 1) = t
<1> DEFINE w == Write(t)
           s == <<w>>
<1>1. w \in StepSet /\ w[1] = "write" /\ w[2] = t
  BY Steps, Named
<1> HIDE DEF w
<1>2. s \in Seq(StepSet) /\ Len(s) = 1 /\ s[1] = w
  BY <1>1, WrittenOut
<1> HIDE DEF s
<1>3. FitsItsPhase(s, ph) /\ InOrder(s, ph, v)
  BY <1>1, <1>2 DEF FitsItsPhase, InOrder, Fits, Kind, What
<1>. QED BY <1>1, <1>2, <1>3 DEF Program, Kind, What, s, w

\* The wait for the session server is one.
LEMMA AuthenticateIsAProgram ==
  ASSUME NEW v
  PROVE  /\ Program(<<<<"authenticate", "">>>>, "login", v)
         /\ Len(<<<<"authenticate", "">>>>) = 1
         /\ Kind(<<<<"authenticate", "">>>>, 1) = "authenticate"
<1> DEFINE a == <<"authenticate", "">>
           s == <<a>>
<1>1. a \in StepSet /\ a[1] = "authenticate"
  BY Steps, Named
<1> HIDE DEF a
<1>2. s \in Seq(StepSet) /\ Len(s) = 1 /\ s[1] = a
  BY <1>1, WrittenOut
<1> HIDE DEF s
<1>3. FitsItsPhase(s, "login") /\ InOrder(s, "login", v)
  BY <1>1, <1>2 DEF FitsItsPhase, InOrder, Fits, Kind, What
<1>. QED BY <1>1, <1>2, <1>3 DEF Program, Kind, s, a

\* So is the request for encryption, which ends on its question.
LEMMA AskForEncryptionIsAProgram ==
  ASSUME NEW v
  PROVE  /\ Program(AskForEncryption, "login", v)
         /\ Len(AskForEncryption) = 2
         /\ Kind(AskForEncryption, 1) = "encrypt"
         /\ AskForEncryption[2] = Write("EncryptionRequest")
<1> DEFINE a == <<"encrypt", "">>
           w == Write("EncryptionRequest")
           s == AskForEncryption
<1>1. /\ a \in StepSet /\ a[1] = "encrypt"
      /\ w \in StepSet /\ w[1] = "write" /\ w[2] = "EncryptionRequest"
  BY Steps, Named DEF Written
<1>2. s = <<a, w>>
  BY DEF AskForEncryption
<1> HIDE DEF a, s
<1>. w = Write("EncryptionRequest")
  OBVIOUS
<1> HIDE DEF w
<1>3. s \in Seq(StepSet) /\ Len(s) = 2 /\ s[1] = a /\ s[2] = w
  BY <1>1, <1>2, WrittenOut
<1>4. Belongs("EncryptionRequest", "login")
  BY DEF Belongs
<1>5. FitsItsPhase(s, "login") /\ InOrder(s, "login", v)
  <2>1. \A i \in 1..Len(s) : i = 1 \/ i = 2
    BY <1>3
  <2>. QED BY <2>1, <1>1, <1>3, <1>4 DEF FitsItsPhase, InOrder, Fits, Kind, What
<1>. QED BY <1>1, <1>3, <1>5 DEF Program, Kind, s, a

\* And so is going on to the configuration phase, and telling the client to leave it.
LEMMA LoginAcknowledgedIsAProgram ==
  ASSUME NEW v, HasConfigurationPhase(v), NEW s,
         s = <<SetPhase("configuration"), Write("Registries"), Write("FinishConfiguration")>>
  PROVE  /\ Program(s, "login", v) /\ Len(s) = 3
         /\ Kind(s, 1) = "phase" /\ What(s, 1) = "configuration"
         /\ Kind(s, 2) = "write" /\ Kind(s, 3) = "write"
<1> DEFINE p == SetPhase("configuration")
           r == Write("Registries")
           f == Write("FinishConfiguration")
<1>1. /\ p \in StepSet /\ p[1] = "phase" /\ p[2] = "configuration"
      /\ r \in StepSet /\ r[1] = "write" /\ r[2] = "Registries"
      /\ f \in StepSet /\ f[1] = "write" /\ f[2] = "FinishConfiguration"
  BY Steps, Named DEF Written
<1> HIDE DEF p, r, f
<1>2. s = <<p, r, f>>
  BY DEF p, r, f
<1>3. s \in Seq(StepSet) /\ Len(s) = 3 /\ s[1] = p /\ s[2] = r /\ s[3] = f
  BY <1>1, <1>2, WrittenOut
<1>4. Belongs("Registries", "configuration") /\ Belongs("FinishConfiguration", "configuration")
  BY DEF Belongs
<1>5. \A i \in 1..Len(s) : i = 1 \/ i = 2 \/ i = 3
  BY <1>3
<1>6. FitsItsPhase(s, "login") /\ InOrder(s, "login", v)
  BY <1>1, <1>3, <1>4, <1>5 DEF FitsItsPhase, InOrder, Fits, Kind, What, Asking
<1>. QED BY <1>1, <1>3, <1>6 DEF Program, Kind, What

\* What is left of a handler after a step is what is left of one.
LEMMA Rest ==
  ASSUME NEW S, NEW s \in Seq(S), s # <<>>
  PROVE  /\ Len(s) \in Nat /\ Len(s) >= 1 /\ Head(s) = s[1] /\ s[1] \in S
         /\ Tail(s) \in Seq(S) /\ Len(Tail(s)) = Len(s) - 1
         /\ \A i \in 1..Len(Tail(s)) : i + 1 \in 1..Len(s) /\ Tail(s)[i] = s[i + 1]
  OBVIOUS

\* In the phase that the step left it in, what is left of a program is one.
LEMMA RestOfAProgram ==
  ASSUME NEW s, NEW ph, NEW v, Program(s, ph, v), s # <<>>
  PROVE  Program(Tail(s), IF Kind(s, 1) = "phase" THEN What(s, 1) ELSE ph, v)
<1> DEFINE r == Tail(s)
           q == IF Kind(s, 1) = "phase" THEN What(s, 1) ELSE ph
<1>1. s \in Seq(StepSet) /\ FitsItsPhase(s, ph) /\ InOrder(s, ph, v)
  BY DEF Program
<1>2. /\ Len(s) \in Nat /\ Len(s) >= 1 /\ r \in Seq(StepSet) /\ Len(r) = Len(s) - 1
      /\ \A i \in 1..Len(r) : i + 1 \in 1..Len(s) /\ r[i] = s[i + 1]
  BY <1>1, Rest
<1> HIDE DEF r
<1>3. \A i \in 1..Len(r) : Kind(r, i) = Kind(s, i + 1) /\ What(r, i) = What(s, i + 1)
  BY <1>2 DEF Kind, What
<1>4. FitsItsPhase(r, q)
  <2>1. CASE Kind(s, 1) = "phase"
    <3>1. \A i \in 2..Len(s) : Fits(s[i], What(s, 1))
      BY <2>1, <1>1, <1>2 DEF FitsItsPhase
    <3>2. \A i \in 1..Len(r) : Fits(r[i], q)
      BY <3>1, <2>1, <1>2
    <3>3. \A i \in 1..Len(r) : Kind(r, i) # "phase"
      BY <3>2 DEF Fits, Kind
    <3>. QED BY <3>2, <3>3 DEF FitsItsPhase
  <2>2. CASE Kind(s, 1) # "phase"
    <3>1. ASSUME \A i \in 1..Len(r) : Kind(r, i) # "phase"
          PROVE  \A i \in 1..Len(r) : Fits(r[i], ph)
      <4>1. ASSUME NEW i \in 2..Len(s)
            PROVE  Kind(s, i) # "phase"
        <5>1. i - 1 \in 1..Len(r) /\ (i - 1) + 1 = i
          BY <1>2
        <5>2. Kind(r, i - 1) = Kind(s, (i - 1) + 1)
          BY <5>1, <1>3
        <5>. QED BY <5>1, <5>2, <3>1
      <4>2. \A i \in 1..Len(s) : Kind(s, i) # "phase"
        BY <4>1, <2>2
      <4>3. \A i \in 1..Len(s) : Fits(s[i], ph)
        BY <4>2, <1>1 DEF FitsItsPhase
      <4>. QED BY <4>3, <1>2
    <3>2. ASSUME NEW k \in 1..Len(r), Kind(r, k) = "phase"
          PROVE  /\ \A i \in 1..(k - 1) : Fits(r[i], ph)
                 /\ \A i \in (k + 1)..Len(r) : Fits(r[i], What(r, k))
      <4>1. /\ k + 1 \in 1..Len(s) /\ Kind(s, k + 1) = "phase"
            /\ What(s, k + 1) = What(r, k)
        BY <3>2, <1>2, <1>3
      <4> DEFINE m == k + 1
      <4>2. /\ \A i \in 1..(m - 1) : Fits(s[i], ph)
            /\ \A i \in (m + 1)..Len(s) : Fits(s[i], What(s, m))
        BY <4>1, <1>1 DEF FitsItsPhase
      <4>3. ASSUME NEW i \in 1..(k - 1)
            PROVE  Fits(r[i], ph)
        <5>1. i \in 1..Len(r) /\ i + 1 \in 1..(m - 1)
          BY <1>2
        <5>. QED BY <5>1, <4>2, <1>2
      <4>4. ASSUME NEW i \in (k + 1)..Len(r)
            PROVE  Fits(r[i], What(r, k))
        <5>1. i \in 1..Len(r) /\ i + 1 \in (m + 1)..Len(s)
          BY <1>2
        <5>. QED BY <5>1, <4>1, <4>2, <1>2
      <4>. QED BY <4>3, <4>4
    <3>. QED BY <3>1, <3>2, <2>2 DEF FitsItsPhase
  <2>. QED BY <2>1, <2>2
<1>5. InOrder(r, q, v)
  <2> SUFFICES ASSUME NEW i \in 1..Len(r)
               PROVE
    /\ Kind(r, i) = "write" =>
         /\ Asking(What(r, i), v) => i = Len(r)
         /\ What(r, i) = "LoginSuccess" /\ ~HasConfigurationPhase(v) =>
              i < Len(r) /\ r[i + 1] = SetPhase("play")
         /\ What(r, i) = "EncryptionRequest" => i <= 2 /\ (i = 2 => Kind(r, 1) = "encrypt")
    /\ Kind(r, i) \in {"profile", "encrypt", "authenticate"} => i = 1
    /\ Kind(r, i) = "encrypt" => Len(r) = 2 /\ r[2] = Write("EncryptionRequest")
    /\ Kind(r, i) = "authenticate" => Len(r) = 1
    /\ Kind(r, i) = "phase" =>
         \/ i = 1
         \/ /\ r[i - 1] = Write("LoginSuccess") /\ q = "login"
            /\ What(r, i) = "play" /\ ~HasConfigurationPhase(v)
    BY DEF InOrder
  <2> DEFINE j == i + 1
  <2>1. /\ j \in 2..Len(s) /\ r[i] = s[j] /\ Kind(r, i) = Kind(s, j) /\ What(r, i) = What(s, j)
    BY <1>2, <1>3
  <2>2. /\ Kind(s, j) = "write" =>
             /\ Asking(What(s, j), v) => j = Len(s)
             /\ What(s, j) = "LoginSuccess" /\ ~HasConfigurationPhase(v) =>
                  j < Len(s) /\ s[j + 1] = SetPhase("play")
             /\ What(s, j) = "EncryptionRequest" => j <= 2
        /\ Kind(s, j) \notin {"profile", "encrypt", "authenticate"}
        /\ Kind(s, j) = "phase" =>
             /\ s[j - 1] = Write("LoginSuccess") /\ ph = "login"
             /\ What(s, j) = "play" /\ ~HasConfigurationPhase(v)
    BY <2>1, <1>1 DEF InOrder
  <2> HIDE DEF j
  <2>3. j = i + 1
    BY DEF j
  <2>4. ASSUME Kind(r, i) = "write", What(r, i) = "LoginSuccess", ~HasConfigurationPhase(v)
        PROVE  i < Len(r) /\ r[i + 1] = SetPhase("play")
    <3>1. i < Len(r) /\ i + 1 \in 1..Len(r) /\ s[j + 1] = SetPhase("play")
      BY <2>1, <2>2, <2>3, <2>4, <1>2
    <3>2. r[i + 1] = s[i + 1 + 1]
      BY <3>1, <1>2
    <3>. QED BY <3>1, <3>2, <2>3
  <2>5. ASSUME Kind(r, i) = "phase", i # 1
        PROVE  /\ r[i - 1] = Write("LoginSuccess") /\ q = "login"
               /\ What(r, i) = "play" /\ ~HasConfigurationPhase(v)
    <3>1. i - 1 \in 1..Len(r) /\ (i - 1) + 1 = j - 1 /\ j - 1 \in 1..Len(s)
      BY <2>5, <2>1, <2>3, <1>2
    <3>2. r[i - 1] = s[j - 1]
      BY <3>1, <1>2
    <3>3. s[1][1] # "phase"
      <4>1. CASE Kind(s, 1) = "phase"
        <5>1. Fits(s[j], What(s, 1))
          BY <4>1, <2>1, <1>1, <1>2 DEF FitsItsPhase
        <5>. QED BY <5>1, <2>1, <2>5 DEF Fits, Kind
      <4>. QED BY <4>1 DEF Kind
    <3>. QED BY <3>2, <3>3, <2>1, <2>2, <2>5 DEF Kind
  <2>. QED BY <2>1, <2>2, <2>3, <2>4, <2>5, <1>2
<1>. QED BY <1>2, <1>4, <1>5 DEF Program, r

-------------------------------------------------------------------------------
(* The inductive invariant.                                                   *)

\* Until it is in play a connection is in lockstep: this is what the server goes
\* on by.
Driving == {"LoginStart", "StatusRequest", "PingRequest", "EncryptionResponse",
            "SignedChallenge", "ForwardingSigned", "ForwardingUnsigned",
            "ForwardingUnknown", "LoginAcknowledged", "AcknowledgeFinish"}
EncryptionAnswers == {"EncryptionResponse", "SignedChallenge"}

\* The phase a peer that is in phase "at" is in once it has read w.
Holds(w, t) == \E i \in 1..Len(w) : w[i].type = t
EndOf(w, at, v) == IF Holds(w, "LoginSuccess")
                   THEN IF HasConfigurationPhase(v) THEN "configuration" ELSE "play"
                   ELSE IF Holds(w, "FinishConfiguration") THEN "play" ELSE at
PeerEnd == EndOf(toPeer, peer, conf.version)
Caught(x) == Alive => PeerEnd = x

\* Where the peer is once it has sent p.
AnsweredFrom(p) == CASE p.type = "AcknowledgeFinish" -> "play"
                     [] p.type = "LoginAcknowledged" -> "configuration"
                     [] OTHER                        -> p.phase

StepsInv ==
  /\ Program(steps, phase, conf.version)
  /\ steps # <<>> => serving
  /\ \A i \in 1..Len(steps) :
       /\ Kind(steps, i) = "phase" =>
            /\ toServer = <<>> /\ phase \in {"login", "configuration"}
            /\ What(steps, i) = "configuration" => phase = "login" /\ HasConfigurationPhase(conf.version)
            /\ phase = "configuration" => finished /\ toPeer = <<>>
            /\ i = 1 => Caught(What(steps, i))
       /\ steps[i] = Write("EncryptionRequest") /\ i = 1 => verifyToken
       /\ Kind(steps, i) = "authenticate" => cipher

\* What waits for the server it can read when it comes to it; what it goes on by
\* is the last of it, while nothing else is under way.
ToServerInv ==
  \A i \in 1..Len(toServer) : LET p == toServer[i] IN
    /\ p.compressed = compression /\ p.enciphered = cipher
    /\ Belongs(p.type, p.phase) /\ p.type \in Driving \cup {"Handshake", "KeepAlive", "MovePlayer"}
    /\ \/ p.phase = phase
       \/ i = 2 /\ toServer[1].type = "Handshake" /\ p.phase = conf.intent
    /\ p.type = "Handshake" => i = 1 /\ Len(toServer) = 2 /\ toServer[2].type \in Driving
    /\ p.type \in Driving => i = Len(toServer) /\ steps = <<>> /\ toPeer = <<>>
    /\ p.type \in Driving => Caught(AnsweredFrom(p))
    /\ p.type = "AcknowledgeFinish" => finished
    /\ p.type = "LoginAcknowledged" => HasConfigurationPhase(conf.version)
    /\ p.type \in EncryptionAnswers => verifyToken /\ (Alive => peerCipher)
    /\ p.type = "SignedChallenge" => MaySignEncryptionChallenge(conf.version)

\* What waits for the peer, whoever that is: what asks is the last of it, and
\* what is of a phase that the server keeps alive is of the one it is in.
ToPeerInv ==
  \A i \in 1..Len(toPeer) : LET p == toPeer[i] IN
    /\ Belongs(p.type, p.phase) /\ p.type \in Written \cup {"SetCompression", "KeepAlive"}
    /\ Asking(p.type, conf.version) => i = Len(toPeer) /\ steps = <<>> /\ p.phase = phase
    /\ p.type = "FinishConfiguration" => finished
    /\ p.type = "EncryptionRequest" => verifyToken
    /\ p.phase \in {"configuration", "play"} =>
         /\ p.phase = phase /\ p.compressed = compression /\ p.enciphered = cipher

\* A peer that has not stopped can read it when it comes to it,
PeerInv ==
  Alive => \A i \in 1..Len(toPeer) : LET p == toPeer[i] IN
    /\ p.compressed = (peerCompress \/ \E j \in 1..(i - 1) : toPeer[j].type = "SetCompression")
    /\ p.enciphered = peerCipher
    /\ p.phase = IF \E j \in 1..(i - 1) : toPeer[j].type = "LoginSuccess" THEN "play" ELSE peer

\* and what is written next.
NextInv ==
  Alive =>
    /\ compression = (peerCompress \/ Holds(toPeer, "SetCompression"))
    /\ \/ cipher = peerCipher
       \/ \E i \in 1..Len(toServer) : toServer[i].type \in EncryptionAnswers
    /\ \/ phase = PeerEnd
       \/ phase = "handshake" /\ peer = conf.intent /\ toServer # <<>>
       \/ /\ phase = "login" /\ PeerEnd \in {"configuration", "play"}
          /\ steps = <<>> \/ Kind(steps, 1) = "phase"
       \/ phase = "configuration" /\ finished /\ PeerEnd = "play"

\* Before its handshake a connection is as it came.
NewInv ==
  /\ phase = "handshake" =>
       /\ toPeer = <<>> /\ steps = <<>> /\ ~compression /\ ~cipher /\ ~verifyToken
       /\ toServer = <<>> \/ toServer[1].type = "Handshake"
       /\ forwarded = "nobody" /\ ~forwarding /\ ~peerCompress /\ ~peerCipher
  /\ peer = "new" => phase = "handshake" /\ toServer = <<>>
  /\ verifyToken => ~cipher
  /\ finished => phase \in {"configuration", "play"}

\* It counts in play, until the read loop is done with it, and is on the roster
\* nowhere else.
CountInv == /\ online = (IF serving /\ phase = "play" THEN 1 ELSE 0)
            /\ onRoster => phase = "play"

LockstepInv == /\ TypeOK /\ CountInv /\ StepsInv /\ ToServerInv /\ ToPeerInv
               /\ PeerInv /\ NextInv /\ NewInv

-------------------------------------------------------------------------------
(* Lemmas of queues.                                                          *)

\* What is in a queue that grew by one packet, and in one that lost its first.
LEMMA Grown ==
  ASSUME NEW S, NEW w \in Seq(S), NEW p \in S
  PROVE  /\ Len(w) \in Nat
         /\ Append(w, p) \in Seq(S) /\ Len(Append(w, p)) = Len(w) + 1
         /\ \A i \in 1..Len(w) : Append(w, p)[i] = w[i]
         /\ Append(w, p)[Len(w) + 1] = p
  OBVIOUS

\* What it holds then.
LEMMA GrownHolds ==
  ASSUME NEW S, NEW w \in Seq(S), NEW p \in S, NEW t
  PROVE  Holds(Append(w, p), t) <=> Holds(w, t) \/ p.type = t
<1> DEFINE q == Append(w, p)
<1>1. /\ Len(w) \in Nat /\ Len(q) = Len(w) + 1
      /\ \A i \in 1..Len(w) : q[i] = w[i]
      /\ q[Len(w) + 1] = p
  BY Grown
<1> HIDE DEF q
<1>2. ASSUME Holds(q, t) PROVE Holds(w, t) \/ p.type = t
  <2>1. PICK i \in 1..Len(q) : q[i].type = t
    BY <1>2 DEF Holds
  <2>2. CASE i = Len(w) + 1
    BY <2>1, <2>2, <1>1
  <2>3. CASE i # Len(w) + 1
    <3>1. i \in 1..Len(w)
      BY <2>3, <1>1
    <3>. QED BY <3>1, <2>1, <1>1 DEF Holds
  <2>. QED BY <2>2, <2>3
<1>3. ASSUME Holds(w, t) PROVE Holds(q, t)
  <2>1. PICK i \in 1..Len(w) : w[i].type = t
    BY <1>3 DEF Holds
  <2>2. i \in 1..Len(q)
    BY <1>1
  <2>. QED BY <2>1, <2>2, <1>1 DEF Holds
<1>4. ASSUME p.type = t PROVE Holds(q, t)
  <2>1. Len(w) + 1 \in 1..Len(q)
    BY <1>1
  <2>. QED BY <2>1, <1>1, <1>4 DEF Holds
<1>. QED BY <1>2, <1>3, <1>4 DEF q

\* And what a queue held before it lost its first.
LEMMA RestHolds ==
  ASSUME NEW S, NEW w \in Seq(S), w # <<>>, NEW t
  PROVE  Holds(w, t) <=> w[1].type = t \/ Holds(Tail(w), t)
<1> DEFINE r == Tail(w)
<1>1. /\ Len(w) \in Nat /\ Len(w) >= 1 /\ Len(r) = Len(w) - 1
      /\ \A i \in 1..Len(r) : i + 1 \in 1..Len(w) /\ r[i] = w[i + 1]
  BY Rest
<1> HIDE DEF r
<1>2. ASSUME Holds(w, t), w[1].type # t PROVE Holds(r, t)
  <2>1. PICK i \in 1..Len(w) : w[i].type = t
    BY <1>2 DEF Holds
  <2>2. i - 1 \in 1..Len(r) /\ (i - 1) + 1 = i
    BY <2>1, <1>1, <1>2
  <2>. QED BY <2>1, <2>2, <1>1 DEF Holds
<1>3. ASSUME Holds(r, t) PROVE Holds(w, t)
  BY <1>3, <1>1 DEF Holds
<1>4. ASSUME w[1].type = t PROVE Holds(w, t)
  BY <1>4, <1>1 DEF Holds
<1>. QED BY <1>2, <1>3, <1>4 DEF r

\* Nothing is in an empty queue.
LEMMA EmptyRange == \A i \in 1..0 : FALSE
  OBVIOUS

\* No packet of any type is.
LEMMA EmptyHolds == \A t : ~Holds(<<>>, t)
  BY DEF Holds

\* A packet is one.
Packets == [type : PacketTypes, phase : Phases, compressed : BOOLEAN,
            enciphered : BOOLEAN, onlineMode : BOOLEAN]

\* Its fields are what it was made of.
LEMMA PacketFields ==
  ASSUME NEW t, NEW ph, NEW z, NEW e, NEW o
  PROVE  /\ Packet(t, ph, z, e, o).type = t /\ Packet(t, ph, z, e, o).phase = ph
         /\ Packet(t, ph, z, e, o).compressed = z
         /\ Packet(t, ph, z, e, o).enciphered = e
         /\ Packet(t, ph, z, e, o).onlineMode = o
         /\ t \in PacketTypes /\ ph \in Phases
              /\ z \in BOOLEAN /\ e \in BOOLEAN /\ o \in BOOLEAN
              => Packet(t, ph, z, e, o) \in Packets
  BY DEF Packet, Packets

\* The types, one by one.
LEMMA Types ==
  ASSUME TypeOK
  PROVE  /\ conf \in Configs /\ phase \in Phases
         /\ compression \in BOOLEAN /\ cipher \in BOOLEAN /\ verifyToken \in BOOLEAN
         /\ forwarding \in BOOLEAN /\ finished \in BOOLEAN /\ keepAlive \in BOOLEAN
         /\ open \in BOOLEAN /\ serving \in BOOLEAN /\ onRoster \in BOOLEAN
         /\ peer \in {"new", "status", "login", "configuration", "play", "stopped", "closed"}
         /\ peerCompress \in BOOLEAN /\ peerCipher \in BOOLEAN
         /\ toServer \in Seq(Packets) /\ toPeer \in Seq(Packets)
         /\ Len(toServer) \in Nat /\ Len(toPeer) \in Nat
  BY DEF TypeOK, Wire, Packets

\* And those of the configuration.
LEMMA ConfigTypes ==
  ASSUME conf \in Configs
  PROVE  /\ conf.intent \in {"status", "login"} /\ conf.encryption \in BOOLEAN
         /\ conf.secret \in BOOLEAN /\ conf.version \in Versions /\ conf.peer \in Peers
  BY DEF Configs

-------------------------------------------------------------------------------
(* Who may speak.                                                             *)

\* While a handler is under way or something waits for the peer, nothing that
\* drives the connection waits for the server.
LEMMA QuietServer ==
  ASSUME LockstepInv, steps # <<>> \/ toPeer # <<>>
  PROVE  \A i \in 1..Len(toServer) :
           /\ toServer[i].type \in {"KeepAlive", "MovePlayer"}
           /\ toServer[i].phase = phase /\ phase \in {"configuration", "play"}
<1>1. ASSUME NEW i \in 1..Len(toServer)
      PROVE  toServer[i].type \notin Driving
  BY <1>1 DEF LockstepInv, ToServerInv
<1>2. ASSUME NEW i \in 1..Len(toServer)
      PROVE  toServer[i].type # "Handshake"
  <2>1. ASSUME toServer[i].type = "Handshake"
        PROVE  2 \in 1..Len(toServer) /\ toServer[2].type \in Driving
    BY <2>1 DEF LockstepInv, ToServerInv
  <2>. QED BY <2>1, <1>1
<1>3. ASSUME NEW i \in 1..Len(toServer)
      PROVE  /\ toServer[i].type \in {"KeepAlive", "MovePlayer"}
             /\ Belongs(toServer[i].type, toServer[i].phase)
             /\ toServer[i].phase = phase
  <2>1. 1 \in 1..Len(toServer)
    BY DEF LockstepInv, TypeOK, Wire
  <2>. QED BY <2>1, <1>1, <1>2 DEF LockstepInv, ToServerInv
<1>. QED BY <1>3 DEF Belongs

\* A step other than a change of phase is taken in turn: nothing that asks is on
\* its way to the peer, which will read in the phase and the cipher of the server.
LEMMA InTurn ==
  ASSUME LockstepInv, steps # <<>>, Kind(steps, 1) # "phase",
         ~(phase = "configuration" /\ finished)
  PROVE  /\ \A i \in 1..Len(toPeer) : ~Asking(toPeer[i].type, conf.version)
         /\ Alive => phase = PeerEnd /\ cipher = peerCipher
<1>1. \A i \in 1..Len(toPeer) : ~Asking(toPeer[i].type, conf.version)
  BY DEF LockstepInv, ToPeerInv
<1>2. phase # "handshake"
  BY DEF LockstepInv, NewInv
<1>3. \A i \in 1..Len(toServer) : toServer[i].type \notin EncryptionAnswers
  BY QuietServer DEF EncryptionAnswers
<1>. QED BY <1>1, <1>2, <1>3 DEF LockstepInv, NextInv

\* So is a keep alive, wherever one is sent.
LEMMA SweepInTurn ==
  ASSUME LockstepInv, phase = "play" \/ (phase = "configuration" /\ ~finished)
  PROVE  /\ \A i \in 1..Len(toServer) :
              toServer[i].type \in {"KeepAlive", "MovePlayer"} /\ toServer[i].phase = phase
         /\ \A i \in 1..Len(toPeer) : ~Asking(toPeer[i].type, conf.version)
         /\ Alive => phase = PeerEnd /\ cipher = peerCipher
<1>1. ASSUME NEW i \in 1..Len(toServer)
      PROVE  toServer[i].phase = phase
  <2>1. 1 \in 1..Len(toServer)
    BY DEF LockstepInv, TypeOK, Wire
  <2>2. toServer[1].phase = phase /\ Belongs(toServer[1].type, toServer[1].phase)
    BY <2>1 DEF LockstepInv, ToServerInv
  <2>3. toServer[1].type # "Handshake"
    BY <2>2 DEF Belongs
  <2>. QED BY <2>3 DEF LockstepInv, ToServerInv
<1>2. ASSUME NEW i \in 1..Len(toServer)
      PROVE  toServer[i].type \in {"KeepAlive", "MovePlayer"}
  <2>1. /\ Belongs(toServer[i].type, phase)
        /\ toServer[i].type \in Driving \cup {"Handshake", "KeepAlive", "MovePlayer"}
        /\ toServer[i].type = "AcknowledgeFinish" => finished /\ phase = "configuration"
    BY <1>1 DEF LockstepInv, ToServerInv, Belongs
  <2>. QED BY <2>1 DEF Belongs, Driving
<1>3. ASSUME NEW i \in 1..Len(toPeer)
      PROVE  ~Asking(toPeer[i].type, conf.version)
  <2>1. /\ Belongs(toPeer[i].type, toPeer[i].phase)
        /\ Asking(toPeer[i].type, conf.version) => toPeer[i].phase = phase
        /\ toPeer[i].type = "FinishConfiguration" => finished
    BY DEF LockstepInv, ToPeerInv
  <2>. QED BY <2>1 DEF Belongs, Asking
<1>4. \A i \in 1..Len(toServer) : toServer[i].type \notin EncryptionAnswers
  BY <1>2 DEF EncryptionAnswers
<1>. QED BY <1>1, <1>2, <1>3, <1>4 DEF LockstepInv, NextInv

\* A packet sent in turn keeps what waits for either end as it should be, and
\* moves the peer on where it reads that it is to move.
LEMMA Sends ==
  ASSUME LockstepInv, NEW t \in Written \cup {"SetCompression", "KeepAlive"}, NEW o \in BOOLEAN,
         Belongs(t, phase),
         toPeer' = Append(toPeer, Packet(t, phase, compression, cipher, o)),
         \A i \in 1..Len(toServer) :
           toServer[i].type \in {"KeepAlive", "MovePlayer"} /\ toServer[i].phase = phase,
         \A i \in 1..Len(toPeer) : ~Asking(toPeer[i].type, conf.version),
         Alive => phase = PeerEnd /\ cipher = peerCipher,
         UNCHANGED <<conf, phase, cipher, verifyToken, peer, peerCompress, peerCipher, toServer>>,
         finished => finished',
         compression' = (compression \/ t = "SetCompression"),
         Asking(t, conf.version) => steps' = <<>>,
         t = "FinishConfiguration" => finished',
         t = "EncryptionRequest" => verifyToken
  PROVE  /\ toPeer' \in Seq(Packets)
         /\ ToServerInv' /\ ToPeerInv' /\ PeerInv'
         /\ Alive' => compression' = (peerCompress' \/ Holds(toPeer', "SetCompression"))
         /\ PeerEnd' = IF t = "LoginSuccess"
                       THEN IF HasConfigurationPhase(conf.version) THEN "configuration" ELSE "play"
                       ELSE IF t = "FinishConfiguration" THEN "play" ELSE PeerEnd
<1> DEFINE p == Packet(t, phase, compression, cipher, o)
<1>1. /\ p.type = t /\ p.phase = phase /\ p.compressed = compression
      /\ p.enciphered = cipher /\ p \in Packets
  <2>1. /\ phase \in Phases /\ compression \in BOOLEAN /\ cipher \in BOOLEAN
    BY Types DEF LockstepInv
  <2>2. t \in PacketTypes
    BY DEF PacketTypes, Written
  <2>. QED BY <2>1, <2>2, PacketFields
<1> HIDE DEF p
<1>2. toPeer \in Seq(Packets) /\ toPeer' = Append(toPeer, p)
  BY Types DEF LockstepInv, p
<1>3. /\ Len(toPeer) \in Nat /\ toPeer' \in Seq(Packets)
      /\ Len(toPeer') = Len(toPeer) + 1
      /\ \A i \in 1..Len(toPeer) : toPeer'[i] = toPeer[i]
      /\ toPeer'[Len(toPeer) + 1] = p
  BY <1>1, <1>2, Grown
<1>4. \A x : Holds(toPeer', x) <=> Holds(toPeer, x) \/ t = x
  BY <1>1, <1>2, GrownHolds
<1>5. Alive' = Alive
  BY DEF Alive
<1>6. /\ t = "SetCompression" => phase = "login"
      /\ t # "SetCompression" => compression' = compression
  BY Types DEF LockstepInv, Belongs
<1>7. \A i \in 1..Len(toPeer') : i \in 1..Len(toPeer) \/ i = Len(toPeer) + 1
  BY <1>3
<1>8. ToServerInv'
  <2> SUFFICES ASSUME NEW i \in 1..Len(toServer)
               PROVE  LET p1 == toServer[i] IN
      /\ p1.compressed = compression' /\ p1.enciphered = cipher
      /\ Belongs(p1.type, p1.phase) /\ p1.type \in {"KeepAlive", "MovePlayer"}
      /\ p1.phase = phase
    BY DEF ToServerInv, Driving, EncryptionAnswers
  <2>1. /\ toServer[i].compressed = compression /\ toServer[i].enciphered = cipher
        /\ Belongs(toServer[i].type, toServer[i].phase)
    BY DEF LockstepInv, ToServerInv
  <2>2. t # "SetCompression"
    BY <2>1, <1>6 DEF Belongs
  <2>. QED BY <2>1, <2>2, <1>6
<1>9. ToPeerInv'
  <2> SUFFICES ASSUME NEW i \in 1..Len(toPeer')
               PROVE  LET p1 == toPeer'[i] IN
      /\ Belongs(p1.type, p1.phase) /\ p1.type \in Written \cup {"SetCompression", "KeepAlive"}
      /\ Asking(p1.type, conf.version) => i = Len(toPeer') /\ steps' = <<>> /\ p1.phase = phase
      /\ p1.type = "FinishConfiguration" => finished'
      /\ p1.type = "EncryptionRequest" => verifyToken
      /\ p1.phase \in {"configuration", "play"} =>
           /\ p1.phase = phase /\ p1.compressed = compression' /\ p1.enciphered = cipher
    BY DEF ToPeerInv
  <2>1. CASE i \in 1..Len(toPeer)
    <3>1. toPeer'[i] = toPeer[i] /\ ~Asking(toPeer[i].type, conf.version)
      BY <2>1, <1>3
    <3>2. /\ Belongs(toPeer[i].type, toPeer[i].phase)
          /\ toPeer[i].type \in Written \cup {"SetCompression", "KeepAlive"}
          /\ toPeer[i].type = "FinishConfiguration" => finished
          /\ toPeer[i].type = "EncryptionRequest" => verifyToken
          /\ toPeer[i].phase \in {"configuration", "play"} =>
              /\ toPeer[i].phase = phase /\ toPeer[i].compressed = compression
              /\ toPeer[i].enciphered = cipher
      BY <2>1 DEF LockstepInv, ToPeerInv
    <3>. QED BY <3>1, <3>2, <1>6
  <2>2. CASE i = Len(toPeer) + 1
    BY <2>2, <1>1, <1>3, <1>6
  <2>. QED BY <2>1, <2>2, <1>7
<1>10. PeerInv'
  <2> SUFFICES ASSUME Alive, NEW i \in 1..Len(toPeer')
               PROVE  LET p1 == toPeer'[i] IN
    /\ p1.compressed = (peerCompress \/ \E j \in 1..(i - 1) : toPeer'[j].type = "SetCompression")
    /\ p1.enciphered = peerCipher
    /\ p1.phase = IF \E j \in 1..(i - 1) : toPeer'[j].type = "LoginSuccess" THEN "play" ELSE peer
    BY <1>5 DEF PeerInv
  <2>1. \A x : (\E j \in 1..(i - 1) : toPeer'[j].type = x)
                 <=> (\E j \in 1..(i - 1) : toPeer[j].type = x)
    <3>1. \A j \in 1..(i - 1) : j \in 1..Len(toPeer)
      BY <1>3
    <3>. QED BY <3>1, <1>3
  <2>2. CASE i \in 1..Len(toPeer)
    BY <2>1, <2>2, <1>3 DEF LockstepInv, PeerInv
  <2>3. CASE i = Len(toPeer) + 1
    <3>1. \A x : (\E j \in 1..(i - 1) : toPeer[j].type = x) <=> Holds(toPeer, x)
      BY <2>3, <1>3 DEF Holds
    <3>2. compression = (peerCompress \/ Holds(toPeer, "SetCompression"))
      BY DEF LockstepInv, NextInv
    <3>3. phase = IF Holds(toPeer, "LoginSuccess") THEN "play" ELSE peer
      BY DEF PeerEnd, EndOf, Holds, Asking
    <3>4. toPeer'[i] = p
      BY <2>3, <1>3
    <3>. QED BY <2>1, <3>1, <3>2, <3>3, <3>4, <1>1
  <2>. QED BY <2>2, <2>3, <1>7
<1>11. ASSUME Alive'
       PROVE  compression' = (peerCompress' \/ Holds(toPeer', "SetCompression"))
  BY <1>11, <1>4, <1>5 DEF LockstepInv, NextInv
<1>12. PeerEnd' = IF t = "LoginSuccess"
                  THEN IF HasConfigurationPhase(conf.version) THEN "configuration" ELSE "play"
                  ELSE IF t = "FinishConfiguration" THEN "play" ELSE PeerEnd
  <2>1. PeerEnd' = EndOf(toPeer', peer, conf.version)
    BY DEF PeerEnd
  <2>2. Holds(toPeer, "LoginSuccess") => ~HasConfigurationPhase(conf.version)
    BY DEF Holds, Asking
  <2>. QED BY <2>1, <2>2, <1>4 DEF PeerEnd, EndOf
<1>. QED BY <1>3, <1>8, <1>9, <1>10, <1>11, <1>12

-------------------------------------------------------------------------------
(* Steps                                                                      *)

\* What a kind of step may be about.
LEMMA StepKinds ==
  ASSUME NEW st \in StepSet
  PROVE  /\ st[1] \in {"phase", "profile", "write", "compress", "encrypt", "authenticate", "join"}
         /\ st[1] = "phase" => st[2] \in {"configuration", "play"}
         /\ st[1] = "profile" => st[2] \in {"offline", "bungee", "modern", "mojang"}
         /\ st[1] = "write" => st[2] \in Written /\ st = Write(st[2])
<1>1. CASE st \in {"phase"} \X {"configuration", "play"}
  BY <1>1
<1>2. CASE st \in {"profile"} \X {"offline", "bungee", "modern", "mojang"}
  BY <1>2
<1>3. CASE st \in {"write"} \X Written
  BY <1>3 DEF Write
<1>4. CASE st \in {<<"compress", "SetCompression">>, <<"encrypt", "">>,
                   <<"authenticate", "">>, <<"join", "">>}
  <2>1. st[1] \in {"compress", "encrypt", "authenticate", "join"}
    BY <1>4, Named
  <2>. QED BY <2>1
<1>. QED BY <1>1, <1>2, <1>3, <1>4 DEF StepSet

\* The step a handler has come to is one that fits the phase, and once it is
\* taken the rest is what is left of a program.
LEMMA NextStep ==
  ASSUME LockstepInv, steps # <<>>
  PROVE  /\ steps \in Seq(StepSet) /\ Len(steps) \in Nat /\ 1 \in 1..Len(steps)
         /\ Head(steps) = steps[1] /\ steps[1] \in StepSet
         /\ Kind(steps, 1) = steps[1][1] /\ What(steps, 1) = steps[1][2]
         /\ Kind(steps, 1) # "phase" => Fits(steps[1], phase)
         /\ Program(steps, phase, conf.version) /\ InOrder(steps, phase, conf.version)
         /\ serving
<1>1. Program(steps, phase, conf.version) /\ serving
  BY DEF LockstepInv, StepsInv
<1>2. /\ steps \in Seq(StepSet) /\ FitsItsPhase(steps, phase)
      /\ InOrder(steps, phase, conf.version)
  BY <1>1 DEF Program
<1>3. /\ Len(steps) \in Nat /\ 1 \in 1..Len(steps) /\ Head(steps) = steps[1]
      /\ steps[1] \in StepSet
  BY <1>2, Rest
<1>4. ASSUME Kind(steps, 1) # "phase" PROVE Fits(steps[1], phase)
  <2>1. CASE \A i \in 1..Len(steps) : Kind(steps, i) # "phase"
    BY <2>1, <1>2, <1>3 DEF FitsItsPhase
  <2>2. ASSUME NEW k \in 1..Len(steps), Kind(steps, k) = "phase"
        PROVE  Fits(steps[1], phase)
    <3>1. 1 \in 1..(k - 1)
      BY <2>2, <1>3, <1>4
    <3>. QED BY <3>1, <2>2, <1>2 DEF FitsItsPhase
  <2>. QED BY <2>1, <2>2
<1>. QED BY <1>1, <1>2, <1>3, <1>4 DEF Kind, What

\* What is left after a step keeps to the invariant, given what the step put in place
\* for it.
LEMMA RestOfSteps ==
  ASSUME LockstepInv, steps # <<>>, steps' = Tail(steps),
         UNCHANGED <<conf, toServer, serving, peer>>,
         phase' = (IF Kind(steps, 1) = "phase" THEN What(steps, 1) ELSE phase),
         Kind(steps, 1) = "encrypt" => verifyToken',
         steps[1] = Write("LoginSuccess") /\ ~HasConfigurationPhase(conf.version) =>
           (Alive => PeerEnd' = "play")
  PROVE  /\ StepsInv' /\ steps' \in Seq(StepSet) /\ Len(steps') = Len(steps) - 1
         /\ \A i \in 1..Len(steps') : i + 1 \in 1..Len(steps) /\ steps'[i] = steps[i + 1]
<1>1. /\ steps \in Seq(StepSet) /\ InOrder(steps, phase, conf.version)
      /\ Program(steps, phase, conf.version) /\ serving
  BY NextStep
<1>2. /\ Len(steps) \in Nat /\ Len(steps) >= 1
      /\ steps' \in Seq(StepSet) /\ Len(steps') = Len(steps) - 1
      /\ \A i \in 1..Len(steps') : i + 1 \in 1..Len(steps) /\ steps'[i] = steps[i + 1]
  BY <1>1, Rest
<1>3. Program(steps', phase', conf'.version)
  BY <1>1, RestOfAProgram
<1>4. Alive' = Alive
  BY DEF Alive
<1>5. ASSUME NEW i \in 1..Len(steps')
      PROVE  /\ Kind(steps', i) = "phase" =>
                  /\ toServer = <<>> /\ phase' = "login" /\ What(steps', i) = "play"
                  /\ i = 1 => (Alive => PeerEnd' = "play")
             /\ steps'[i] = Write("EncryptionRequest") /\ i = 1 => verifyToken'
             /\ Kind(steps', i) # "authenticate"
  <2> DEFINE j == i + 1
  <2>1. /\ j \in 2..Len(steps) /\ steps'[i] = steps[j]
        /\ Kind(steps', i) = Kind(steps, j) /\ What(steps', i) = What(steps, j)
    BY <1>2 DEF Kind, What
  <2>2. Kind(steps, j) # "authenticate"
    BY <2>1, <1>1 DEF InOrder
  <2>3. ASSUME Kind(steps, j) = "phase"
        PROVE  /\ toServer = <<>> /\ phase' = "login" /\ What(steps, j) = "play"
               /\ i = 1 => (Alive => PeerEnd' = "play")
    <3>1. /\ steps[j - 1] = Write("LoginSuccess") /\ phase = "login"
          /\ What(steps, j) = "play" /\ ~HasConfigurationPhase(conf.version)
      BY <2>1, <2>3, <1>1 DEF InOrder
    <3>2. Kind(steps, 1) # "phase"
      <4>1. ASSUME Kind(steps, 1) = "phase" PROVE Fits(steps[j], What(steps, 1))
        BY <4>1, <2>1, <1>1, <1>2 DEF Program, FitsItsPhase
      <4>. QED BY <4>1, <2>3 DEF Fits, Kind
    <3>3. toServer = <<>>
      BY <2>1, <2>3 DEF LockstepInv, StepsInv
    <3>. QED BY <3>1, <3>2, <3>3
  <2>4. ASSUME steps'[i] = Write("EncryptionRequest"), i = 1
        PROVE  verifyToken'
    <3>1. /\ Kind(steps, 2) = "write" /\ What(steps, 2) = "EncryptionRequest"
          /\ 2 \in 1..Len(steps)
      BY <2>1, <2>4, Named DEF Kind, What
    <3>. QED BY <3>1, <1>1 DEF InOrder
  <2>. QED BY <2>1, <2>2, <2>3, <2>4
<1>6. StepsInv'
  BY <1>1, <1>3, <1>4, <1>5 DEF StepsInv, Caught
<1>. QED BY <1>2, <1>6

\* A handler that ends leaves everything else as it was.
LEMMA HandlerEnds ==
  ASSUME LockstepInv, steps' = <<>>,
         UNCHANGED <<conf, client, open, serving, online, onRoster, remote, wires>>
  PROVE  LockstepInv'
<1>. USE DEF client, remote, wires
<1>1. Alive' = Alive /\ PeerEnd' = PeerEnd
  BY DEF Alive, PeerEnd
<1>2. TypeOK' /\ CountInv' /\ NewInv'
  BY DEF LockstepInv, TypeOK, CountInv, NewInv
<1>3. StepsInv'
  <2>1. Program(<<>>, phase, conf.version) /\ Len(<<>>) = 0
    BY NothingIsAProgram
  <2>. QED BY <2>1 DEF StepsInv
<1>4. ToServerInv'
  BY <1>1 DEF LockstepInv, ToServerInv, Caught, AnsweredFrom
<1>5. ToPeerInv' /\ PeerInv'
  BY <1>1 DEF LockstepInv, ToPeerInv, PeerInv
<1>6. NextInv'
  BY <1>1 DEF LockstepInv, NextInv
<1>. QED BY <1>2, <1>3, <1>4, <1>5, <1>6 DEF LockstepInv

\* Writing a packet: it is sent in turn, and what it asks for or leads to is the
\* last step or the next.
LEMMA StepWriteKeeps ==
  ASSUME LockstepInv, StepWrite
  PROVE  LockstepInv'
<1> DEFINE t == What(steps, 1)
<1>1. /\ steps # <<>> /\ Kind(steps, 1) = "write" /\ Head(steps)[2] = t
      /\ t \in Written /\ steps[1] = Write(t) /\ Belongs(t, phase)
      /\ InOrder(steps, phase, conf.version) /\ 1 \in 1..Len(steps)
      /\ Len(steps) \in Nat
  <2>1. steps # <<>> /\ Head(steps)[1] = "write"
    BY DEF StepWrite, AtStep
  <2>. QED BY <2>1, NextStep, StepKinds DEF Fits
<1>2. CASE Refused
  BY <1>2, HandlerEnds DEF StepWrite, remote, wires, client
<1>3. CASE ~Refused
  <2>1. /\ toPeer' = Append(toPeer, Packet(t, phase, compression, cipher,
                       t = "Login" /\ (conf.encryption \/ forwarded # "nobody")))
        /\ steps' = Tail(steps)
        /\ finished' = (finished \/ t = "FinishConfiguration")
        /\ UNCHANGED <<conf, phase, compression, cipher, verifyToken, forwarding, forwarded,
                       profile, keepAlive, open, serving, online, onRoster, peer,
                       peerCompress, peerCipher, toServer>>
        /\ ~(phase = "configuration" /\ finished)
    BY <1>1, <1>3 DEF StepWrite, Send, Refused, remote
  <2>2. /\ \A i \in 1..Len(toPeer) : ~Asking(toPeer[i].type, conf.version)
        /\ Alive => phase = PeerEnd /\ cipher = peerCipher
    BY <2>1, <1>1, InTurn
  <2>3. \A i \in 1..Len(toServer) :
          toServer[i].type \in {"KeepAlive", "MovePlayer"} /\ toServer[i].phase = phase
    BY <1>1, QuietServer
  <2>4. Asking(t, conf.version) => Len(steps) = 1 /\ steps' = <<>>
    <3>1. Asking(t, conf.version) => Len(steps) = 1
      BY <1>1 DEF InOrder
    <3>2. steps \in Seq(StepSet)
      BY <1>1, NextStep
    <3>. QED BY <2>1, <3>1, <3>2
  <2>5. t = "EncryptionRequest" => verifyToken
    BY <1>1 DEF LockstepInv, StepsInv
  <2>6. compression' = (compression \/ t = "SetCompression")
    BY <2>1, <1>1, Types DEF LockstepInv, Written
  <2> HIDE DEF t
  <2>7. /\ toPeer' \in Seq(Packets)
        /\ ToServerInv' /\ ToPeerInv' /\ PeerInv'
        /\ Alive' => compression' = (peerCompress' \/ Holds(toPeer', "SetCompression"))
        /\ PeerEnd' = IF t = "LoginSuccess"
                      THEN IF HasConfigurationPhase(conf.version) THEN "configuration" ELSE "play"
                      ELSE IF t = "FinishConfiguration" THEN "play" ELSE PeerEnd
    BY <1>1, <2>1, <2>2, <2>3, <2>4, <2>5, <2>6, Sends
  <2>8. Alive' = Alive
    BY <2>1 DEF Alive
  <2>9. /\ StepsInv' /\ steps' \in Seq(StepSet) /\ Len(steps') = Len(steps) - 1
        /\ \A i \in 1..Len(steps') : i + 1 \in 1..Len(steps) /\ steps'[i] = steps[i + 1]
    <3>1. steps[1] = Write("LoginSuccess") => t = "LoginSuccess"
      BY Named DEF t, What
    <3>. QED BY <3>1, <1>1, <2>1, <2>7, RestOfSteps
  <2>10. NextInv'
    <3>1. ASSUME t = "LoginSuccess", ~HasConfigurationPhase(conf.version)
          PROVE  Kind(steps', 1) = "phase" /\ phase = "login"
      <4>1. 1 < Len(steps) /\ steps[1 + 1] = SetPhase("play")
        BY <3>1, <1>1 DEF InOrder, t
      <4>2. 1 \in 1..Len(steps') /\ steps'[1] = steps[1 + 1]
        BY <4>1, <1>1, <2>9
      <4>. QED BY <4>1, <4>2, <3>1, <1>1, Named DEF Kind, Belongs
    <3>2. ASSUME t = "LoginSuccess", HasConfigurationPhase(conf.version)
          PROVE  steps' = <<>> /\ phase = "login"
      BY <3>2, <1>1, <2>4 DEF Asking, Belongs
    <3>3. ASSUME t = "FinishConfiguration"
          PROVE  phase = "configuration" /\ finished'
      BY <3>3, <1>1, <2>1 DEF Belongs
    <3>. QED BY <2>1, <2>2, <2>7, <2>8, <3>1, <3>2, <3>3 DEF NextInv
  <2>11. NewInv'
    <3>1. phase # "handshake"
      BY <1>1 DEF LockstepInv, NewInv
    <3>2. t = "FinishConfiguration" => phase = "configuration"
      BY <1>1 DEF Belongs
    <3>. QED BY <2>1, <3>1, <3>2 DEF LockstepInv, NewInv
  <2>12. TypeOK' /\ CountInv'
    BY <2>1, <2>7, <2>9 DEF LockstepInv, TypeOK, CountInv, Wire, Packets
  <2>. QED BY <2>7, <2>9, <2>10, <2>11, <2>12 DEF LockstepInv
<1>. QED BY <1>2, <1>3

\* Announcing the threshold: the announcement is framed as before, all that follows
\* is not.
LEMMA StepCompressKeeps ==
  ASSUME LockstepInv, StepCompress
  PROVE  LockstepInv'
<1>1. /\ steps # <<>> /\ Kind(steps, 1) = "compress" /\ phase = "login"
      /\ steps \in Seq(StepSet)
  <2>1. steps # <<>> /\ Head(steps)[1] = "compress"
    BY DEF StepCompress, AtStep
  <2>. QED BY <2>1, NextStep DEF Fits
<1>2. CASE compression \/ Refused
  BY <1>2, HandlerEnds DEF StepCompress, remote, wires, client
<1>3. CASE ~(compression \/ Refused)
  <2>1. /\ toPeer' = Append(toPeer, Packet("SetCompression", phase, compression, cipher, FALSE))
        /\ steps' = Tail(steps) /\ compression' = TRUE
        /\ UNCHANGED <<conf, phase, cipher, verifyToken, forwarding, forwarded,
                       profile, finished, keepAlive, open, serving, online, onRoster, peer,
                       peerCompress, peerCipher, toServer>>
    BY <1>1, <1>3 DEF StepCompress, Send, remote
  <2>2. /\ \A i \in 1..Len(toPeer) : ~Asking(toPeer[i].type, conf.version)
        /\ Alive => phase = PeerEnd /\ cipher = peerCipher
    BY <1>1, InTurn
  <2>3. \A i \in 1..Len(toServer) :
          toServer[i].type \in {"KeepAlive", "MovePlayer"} /\ toServer[i].phase = phase
    BY <1>1, QuietServer
  <2>4. Belongs("SetCompression", phase) /\ ~Asking("SetCompression", conf.version)
    BY <1>1 DEF Belongs, Asking
  <2>5. /\ toPeer' \in Seq(Packets)
        /\ ToServerInv' /\ ToPeerInv' /\ PeerInv'
        /\ Alive' => compression' = (peerCompress' \/ Holds(toPeer', "SetCompression"))
        /\ PeerEnd' = PeerEnd
    <3> DEFINE t == "SetCompression"
    <3>1. t \in Written \cup {"SetCompression", "KeepAlive"} /\ FALSE \in BOOLEAN
      OBVIOUS
    <3>2. /\ compression' = (compression \/ t = "SetCompression")
          /\ t # "FinishConfiguration" /\ t # "EncryptionRequest" /\ t # "LoginSuccess"
      BY <2>1
    <3> HIDE DEF t
    <3>3. /\ Belongs(t, phase) /\ ~Asking(t, conf.version)
          /\ toPeer' = Append(toPeer, Packet(t, phase, compression, cipher, FALSE))
      BY <2>1, <2>4 DEF t
    <3>. QED BY <2>1, <2>2, <2>3, <3>1, <3>2, <3>3, Sends
  <2>6. Alive' = Alive
    BY <2>1 DEF Alive
  <2>7. StepsInv' /\ steps' \in Seq(StepSet)
    <3>1. steps[1] # Write("LoginSuccess")
      BY <1>1, Named DEF Kind
    <3>. QED BY <3>1, <1>1, <2>1, RestOfSteps
  <2>8. NextInv'
    BY <2>1, <2>2, <2>5, <2>6 DEF NextInv
  <2>9. NewInv' /\ TypeOK' /\ CountInv'
    BY <1>1, <2>1, <2>5, <2>7 DEF LockstepInv, NewInv, TypeOK, CountInv, Wire, Packets
  <2>. QED BY <2>5, <2>7, <2>8, <2>9 DEF LockstepInv
<1>. QED BY <1>2, <1>3

\* Changing the phase: the peer has been told to, or does it by itself.
LEMMA StepPhaseKeeps ==
  ASSUME LockstepInv, StepPhase
  PROVE  LockstepInv'
<1> DEFINE ph == What(steps, 1)
<1>1. /\ steps # <<>> /\ Kind(steps, 1) = "phase" /\ ph \in {"configuration", "play"}
      /\ 1 \in 1..Len(steps) /\ serving
      /\ phase' = ph /\ steps' = Tail(steps)
      /\ online' = IF ph = "play" /\ phase # "play" THEN online + 1 ELSE online
      /\ UNCHANGED <<conf, compression, cipher, verifyToken, forwarding, forwarded, profile,
                     finished, keepAlive, open, serving, onRoster, peer, peerCompress,
                     peerCipher, toServer, toPeer>>
  <2>1. steps # <<>> /\ Head(steps)[1] = "phase"
    BY DEF StepPhase, AtStep
  <2>. QED BY <2>1, NextStep, StepKinds DEF StepPhase, remote, wires
<1>2. /\ toServer = <<>> /\ phase \in {"login", "configuration"}
      /\ ph = "configuration" => phase = "login" /\ HasConfigurationPhase(conf.version)
      /\ phase = "configuration" => finished /\ toPeer = <<>>
      /\ Alive => PeerEnd = ph
  BY <1>1 DEF LockstepInv, StepsInv, Caught
<1> HIDE DEF ph
<1>3. Alive' = Alive /\ PeerEnd' = PeerEnd
  BY <1>1 DEF Alive, PeerEnd
<1>4. StepsInv' /\ steps' \in Seq(StepSet)
  <2>1. steps[1] # Write("LoginSuccess")
    BY <1>1, Named DEF Kind
  <2>. QED BY <2>1, <1>1, RestOfSteps DEF ph
<1>5. ToServerInv'
  BY <1>1, <1>2 DEF ToServerInv
<1>6. ToPeerInv' /\ PeerInv'
  <2>1. \A i \in 1..Len(toPeer) : ~Asking(toPeer[i].type, conf.version)
    BY <1>1 DEF LockstepInv, ToPeerInv
  <2>2. \A i \in 1..Len(toPeer) : toPeer[i].phase \notin {"configuration", "play"}
    BY <1>2, Types DEF LockstepInv, ToPeerInv
  <2>. QED BY <1>1, <1>3, <2>1, <2>2 DEF LockstepInv, ToPeerInv, PeerInv
<1>7. NextInv'
  BY <1>1, <1>2, <1>3 DEF LockstepInv, NextInv
<1>8. NewInv'
  BY <1>1, <1>2 DEF LockstepInv, NewInv
<1>9. TypeOK' /\ CountInv'
  <2>1. online' \in {0, 1} /\ CountInv'
    BY <1>1, <1>2 DEF LockstepInv, CountInv
  <2>. QED BY <1>1, <1>4, <2>1 DEF LockstepInv, TypeOK, Phases
<1>. QED BY <1>4, <1>5, <1>6, <1>7, <1>8, <1>9 DEF LockstepInv

\* A step that only sets something aside of what is on its way.
LEMMA QuietStepKeeps ==
  ASSUME LockstepInv, steps # <<>>, Kind(steps, 1) \in {"profile", "encrypt", "join"},
         steps' = Tail(steps),
         UNCHANGED <<conf, phase, compression, cipher, finished, serving, online, remote, wires>>,
         \/ verifyToken' = verifyToken /\ Kind(steps, 1) # "encrypt"
         \/ verifyToken' = TRUE /\ ~cipher,
         forwarding' = forwarding, forwarded' = forwarded, profile' \in Sources,
         keepAlive' = keepAlive, open' = open,
         onRoster' = onRoster \/ (onRoster' = TRUE /\ serving /\ phase = "play")
  PROVE  LockstepInv'
<1>1. /\ toServer' = toServer /\ toPeer' = toPeer /\ peer' = peer
      /\ peerCompress' = peerCompress /\ peerCipher' = peerCipher
      /\ steps[1] # Write("LoginSuccess") /\ Kind(steps, 1) # "phase"
  BY Named DEF remote, wires, Kind
<1>2. Alive' = Alive /\ PeerEnd' = PeerEnd
  BY <1>1 DEF Alive, PeerEnd
<1>3. StepsInv' /\ steps' \in Seq(StepSet)
  BY <1>1, RestOfSteps
<1>4. ToServerInv'
  <2>1. \A i \in 1..Len(toServer) : toServer[i].type \in {"KeepAlive", "MovePlayer"}
    BY QuietServer
  <2>. QED BY <1>1, <2>1 DEF LockstepInv, ToServerInv, Driving, EncryptionAnswers
<1>5. ToPeerInv' /\ PeerInv'
  <2>1. \A i \in 1..Len(toPeer) : ~Asking(toPeer[i].type, conf.version)
    BY DEF LockstepInv, ToPeerInv
  <2>. QED BY <1>1, <1>2, <2>1 DEF LockstepInv, ToPeerInv, PeerInv
<1>6. NextInv'
  <2>1. phase = "login" \/ phase = "play"
    BY <1>1, NextStep DEF Fits
  <2>2. Alive => phase = PeerEnd /\ cipher = peerCipher
    BY <1>1, <2>1, InTurn
  <2>. QED BY <1>1, <1>2, <2>2 DEF LockstepInv, NextInv
<1>7. NewInv'
  BY <1>1 DEF LockstepInv, NewInv
<1>8. TypeOK' /\ CountInv'
  <2>1. verifyToken' \in BOOLEAN /\ onRoster' \in BOOLEAN
    BY Types DEF LockstepInv
  <2>2. CountInv'
    BY <1>1 DEF LockstepInv, CountInv
  <2>. QED BY <1>1, <1>3, <2>1, <2>2 DEF LockstepInv, TypeOK
<1>. QED BY <1>3, <1>4, <1>5, <1>6, <1>7, <1>8 DEF LockstepInv

\* Settling the profile is one,
LEMMA StepProfileKeeps ==
  ASSUME LockstepInv, StepProfile
  PROVE  LockstepInv'
<1>1. /\ steps # <<>> /\ Kind(steps, 1) = "profile"
      /\ profile' \in {"offline", "bungee", "modern", "mojang"}
  <2>1. steps # <<>> /\ Head(steps)[1] = "profile"
    BY DEF StepProfile, AtStep
  <2>. QED BY <2>1, NextStep, StepKinds DEF StepProfile
<1>2. profile' \in Sources
  BY <1>1 DEF Sources
<1>3. /\ steps' = Tail(steps)
      /\ UNCHANGED <<conf, phase, compression, cipher, finished, serving, online, remote, wires>>
      /\ verifyToken' = verifyToken /\ forwarding' = forwarding /\ forwarded' = forwarded
      /\ keepAlive' = keepAlive /\ open' = open /\ onRoster' = onRoster
  BY DEF StepProfile
<1>. QED BY <1>1, <1>2, <1>3, QuietStepKeeps

\* so is making the token that the request for encryption is about to carry,
LEMMA StepEncryptKeeps ==
  ASSUME LockstepInv, StepEncrypt
  PROVE  LockstepInv'
<1>1. steps # <<>> /\ Kind(steps, 1) = "encrypt"
  <2>1. steps # <<>> /\ Head(steps)[1] = "encrypt"
    BY DEF StepEncrypt, AtStep
  <2>. QED BY <2>1, NextStep
<1>2. CASE verifyToken \/ cipher
  BY <1>2, HandlerEnds DEF StepEncrypt, client
<1>3. CASE ~(verifyToken \/ cipher)
  <2>1. profile \in Sources
    BY DEF LockstepInv, TypeOK
  <2>. QED BY <1>1, <1>3, <2>1, QuietStepKeeps DEF StepEncrypt
<1>. QED BY <1>2, <1>3

\* and so is joining the roster.
LEMMA StepJoinKeeps ==
  ASSUME LockstepInv, StepJoin
  PROVE  LockstepInv'
<1>1. steps # <<>> /\ Kind(steps, 1) = "join" /\ phase = "play" /\ serving
  <2>1. steps # <<>> /\ Head(steps)[1] = "join"
    BY DEF StepJoin, AtStep
  <2>. QED BY <2>1, NextStep DEF Fits
<1>2. profile \in Sources
  BY DEF LockstepInv, TypeOK
<1>3. /\ steps' = Tail(steps)
      /\ UNCHANGED <<conf, phase, compression, cipher, finished, serving, online, remote, wires>>
      /\ verifyToken' = verifyToken /\ forwarding' = forwarding /\ forwarded' = forwarded
      /\ keepAlive' = keepAlive /\ open' = open /\ profile' = profile /\ onRoster' = TRUE
  BY DEF StepJoin, client
<1>4. onRoster' = onRoster \/ (onRoster' = TRUE /\ serving /\ phase = "play")
  BY <1>1, <1>3
<1>5. \/ verifyToken' = verifyToken /\ Kind(steps, 1) # "encrypt"
      \/ verifyToken' = TRUE /\ ~cipher
  BY <1>1, <1>3
<1>6. profile' \in Sources
  BY <1>2, <1>3
<1>. QED BY <1>1, <1>3, <1>4, <1>5, <1>6, QuietStepKeeps

\* The session server's answer completes the login, or ends it.
LEMMA StepAuthenticateKeeps ==
  ASSUME LockstepInv, StepAuthenticate
  PROVE  LockstepInv'
<1>1. /\ steps # <<>> /\ Kind(steps, 1) = "authenticate" /\ phase = "login" /\ serving
      /\ steps' = CompleteLogin("mojang") \/ steps' = <<Write("Disconnect")>>
      /\ UNCHANGED <<conf, client, open, serving, online, onRoster, remote, wires>>
  <2>1. steps # <<>> /\ Head(steps)[1] = "authenticate"
    BY DEF StepAuthenticate, AtStep
  <2>. QED BY <2>1, NextStep DEF Fits, StepAuthenticate
<1>2. /\ toServer' = toServer /\ toPeer' = toPeer /\ peer' = peer /\ phase' = phase
      /\ peerCompress' = peerCompress /\ peerCipher' = peerCipher /\ conf' = conf
      /\ compression' = compression /\ cipher' = cipher /\ verifyToken' = verifyToken
      /\ forwarding' = forwarding /\ forwarded' = forwarded /\ profile' = profile
      /\ finished' = finished /\ keepAlive' = keepAlive
  BY <1>1 DEF client, remote, wires
<1>3. Alive' = Alive /\ PeerEnd' = PeerEnd
  BY <1>2 DEF Alive, PeerEnd
<1>4. toServer = <<>>
  <2>1. \A i \in 1..Len(toServer) : phase \in {"configuration", "play"}
    BY <1>1, QuietServer
  <2>. QED BY <1>1, <2>1, Types DEF LockstepInv
<1>5. /\ Program(steps', "login", conf.version) /\ Len(steps') \in Nat
      /\ \A i \in 1..Len(steps') :
           /\ Kind(steps', i) = "phase" => What(steps', i) = "play" /\ i # 1
           /\ ~(steps'[i] = Write("EncryptionRequest") /\ i = 1)
           /\ Kind(steps', i) # "authenticate"
      /\ steps' # <<>>
  <2>1. CASE steps' = CompleteLogin("mojang")
    <3>1. /\ Program(steps', "login", conf.version) /\ Len(steps') > 1
          /\ steps'[1] = SetProfile("mojang")
          /\ \A i \in 2..Len(steps') :
               /\ Kind(steps', i) \in {"compress", "write", "phase", "join"}
               /\ Kind(steps', i) = "phase" => What(steps', i) = "play"
      BY <2>1, CompleteLoginIsAProgram
    <3>2. steps' \in Seq(StepSet) /\ Len(steps') \in Nat
      BY <3>1 DEF Program
    <3>3. Kind(steps', 1) = "profile" /\ steps'[1] # Write("EncryptionRequest")
      BY <3>1, Named DEF Kind
    <3>. QED BY <3>1, <3>2, <3>3
  <2>2. CASE steps' = <<Write("Disconnect")>>
    <3>1. /\ "Disconnect" \in Written \ {"LoginSuccess", "EncryptionRequest"}
          /\ Belongs("Disconnect", "login")
      BY DEF Written, Belongs
    <3>2. /\ Program(steps', "login", conf.version) /\ Len(steps') = 1
          /\ Kind(steps', 1) = "write" /\ What(steps', 1) = "Disconnect"
      BY <2>2, <3>1, OneWriteIsAProgram
    <3>. QED BY <3>2, Named DEF Kind, What
  <2>. QED BY <1>1, <2>1, <2>2
<1>6. StepsInv'
  BY <1>1, <1>2, <1>3, <1>4, <1>5 DEF StepsInv
<1>7. ToServerInv'
  BY <1>2, <1>4 DEF ToServerInv
<1>8. ToPeerInv' /\ PeerInv'
  <2>1. \A i \in 1..Len(toPeer) : ~Asking(toPeer[i].type, conf.version)
    BY <1>1 DEF LockstepInv, ToPeerInv
  <2>. QED BY <1>2, <1>3, <2>1 DEF LockstepInv, ToPeerInv, PeerInv
<1>9. NextInv'
  <2>1. Alive => phase = PeerEnd /\ cipher = peerCipher
    BY <1>1, InTurn
  <2>. QED BY <1>2, <1>3, <2>1 DEF LockstepInv, NextInv
<1>10. NewInv' /\ TypeOK' /\ CountInv'
  BY <1>1, <1>2, <1>5 DEF LockstepInv, NewInv, TypeOK, CountInv, Program
<1>. QED BY <1>6, <1>7, <1>8, <1>9, <1>10 DEF LockstepInv

-------------------------------------------------------------------------------
(* Handlers                                                                   *)

\* What drives the connection is alone when it is handled: nothing else is on
\* its way, and the peer is where it sent it from.
LEMMA DrivingAlone ==
  ASSUME LockstepInv, toServer # <<>>, toServer[1].type \in Driving
  PROVE  /\ Len(toServer) = 1 /\ Tail(toServer) = <<>> /\ steps = <<>> /\ toPeer = <<>>
         /\ toServer[1].phase = phase /\ Belongs(toServer[1].type, phase)
         /\ toServer[1].type = "AcknowledgeFinish" => finished
         /\ toServer[1].type = "LoginAcknowledged" => HasConfigurationPhase(conf.version)
         /\ toServer[1].type \in EncryptionAnswers => verifyToken /\ (Alive => peerCipher)
         /\ toServer[1].type = "SignedChallenge" => MaySignEncryptionChallenge(conf.version)
         /\ Alive => peer = AnsweredFrom(toServer[1])
<1>1. toServer \in Seq(Packets) /\ Len(toServer) \in Nat /\ 1 \in 1..Len(toServer)
  BY Types DEF LockstepInv
<1>2. /\ Len(toServer) = 1 /\ steps = <<>> /\ toPeer = <<>>
      /\ Belongs(toServer[1].type, toServer[1].phase)
      /\ toServer[1].phase = phase
      /\ toServer[1].type = "AcknowledgeFinish" => finished
      /\ toServer[1].type = "LoginAcknowledged" => HasConfigurationPhase(conf.version)
      /\ toServer[1].type \in EncryptionAnswers => verifyToken /\ (Alive => peerCipher)
      /\ toServer[1].type = "SignedChallenge" => MaySignEncryptionChallenge(conf.version)
      /\ Alive => PeerEnd = AnsweredFrom(toServer[1])
  <2>1. LET p == toServer[1] IN
        /\ Belongs(p.type, p.phase)
        /\ p.phase = phase \/ 1 = 2
        /\ p.type \in Driving => 1 = Len(toServer) /\ steps = <<>> /\ toPeer = <<>>
        /\ p.type \in Driving => Caught(AnsweredFrom(p))
        /\ p.type = "AcknowledgeFinish" => finished
        /\ p.type = "LoginAcknowledged" => HasConfigurationPhase(conf.version)
        /\ p.type \in EncryptionAnswers => verifyToken /\ (Alive => peerCipher)
        /\ p.type = "SignedChallenge" => MaySignEncryptionChallenge(conf.version)
    BY <1>1 DEF LockstepInv, ToServerInv
  <2>. QED BY <2>1 DEF Caught
<1>3. PeerEnd = peer
  BY <1>2, EmptyHolds DEF PeerEnd, EndOf
<1>4. Tail(toServer) = <<>>
  <2>1. Tail(toServer) \in Seq(Packets) /\ Len(Tail(toServer)) = 0
    BY <1>1, <1>2, Rest
  <2>. QED BY <2>1, EmptySeq
<1>. QED BY <1>2, <1>3, <1>4

\* A handler of such a packet begins with nothing on its way.
LEMMA DrivingHandled ==
  ASSUME LockstepInv, toServer # <<>>, toServer[1].type \in Driving,
         toServer' = Tail(toServer), serving,
         UNCHANGED <<conf, phase, compression, finished, keepAlive, serving, open, online,
                     onRoster, peer, peerCompress, peerCipher, toPeer>>,
         \/ /\ toServer[1].type \notin EncryptionAnswers
            /\ cipher' = cipher /\ verifyToken' = verifyToken
         \/ /\ toServer[1].type \in EncryptionAnswers
            /\ cipher' = TRUE /\ verifyToken' = FALSE,
         forwarding' \in BOOLEAN, forwarded' \in {"nobody", "bungee", "modern"},
         profile' \in Sources,
         Program(steps', phase, conf.version),
         \A i \in 1..Len(steps') :
           /\ Kind(steps', i) = "phase" =>
                /\ phase \in {"login", "configuration"}
                /\ What(steps', i) = "configuration" =>
                     phase = "login" /\ HasConfigurationPhase(conf.version)
                /\ phase = "configuration" => finished
                /\ i = 1 => (Alive => peer = What(steps', i))
           /\ ~(steps'[i] = Write("EncryptionRequest") /\ i = 1)
           /\ Kind(steps', i) = "authenticate" => cipher',
         toServer[1].type = "LoginAcknowledged" => Kind(steps', 1) = "phase"
  PROVE  LockstepInv'
<1>1. /\ Len(toServer) = 1 /\ toServer' = <<>> /\ steps = <<>> /\ toPeer = <<>>
      /\ toServer[1].phase = phase /\ Belongs(toServer[1].type, phase)
      /\ toServer[1].type = "AcknowledgeFinish" => finished
      /\ toServer[1].type \in EncryptionAnswers => verifyToken /\ (Alive => peerCipher)
      /\ Alive => peer = AnsweredFrom(toServer[1])
  BY DrivingAlone
<1>2. Alive' = Alive /\ toPeer' = <<>>
  BY <1>1 DEF Alive
<1>3. PeerEnd' = peer
  BY <1>2, EmptyHolds DEF PeerEnd, EndOf
<1>4. StepsInv'
  BY <1>1, <1>2, <1>3 DEF StepsInv, Caught
<1>5. ToServerInv' /\ ToPeerInv' /\ PeerInv'
  <2>1. Len(toServer') = 0 /\ Len(toPeer') = 0
    BY <1>1, <1>2
  <2>2. ToServerInv'
    <3>1. \A i \in 1..Len(toServer') : FALSE
      BY <2>1, EmptyRange, Zenon
    <3>. QED BY <3>1, Zenon DEF ToServerInv
  <2>3. ToPeerInv'
    BY <2>1 DEF ToPeerInv
  <2>4. PeerInv'
    BY <2>1 DEF PeerInv
  <2>. QED BY <2>2, <2>3, <2>4
<1>6. ASSUME Alive
      PROVE  /\ compression = (peerCompress \/ Holds(<<>>, "SetCompression"))
             /\ cipher' = peerCipher
  <2>1. compression = (peerCompress \/ Holds(<<>>, "SetCompression"))
    BY <1>1, <1>6 DEF LockstepInv, NextInv
  <2>2. CASE toServer[1].type \notin EncryptionAnswers
    <3>1. \A i \in 1..Len(toServer) : toServer[i].type \notin EncryptionAnswers
      BY <1>1, <2>2
    <3>. QED BY <2>1, <2>2, <3>1, <1>6 DEF LockstepInv, NextInv
  <2>3. CASE toServer[1].type \in EncryptionAnswers
    <3>1. peerCipher = TRUE
      BY <2>3, <1>1, <1>6, Types DEF LockstepInv
    <3>. QED BY <2>1, <2>3, <3>1
  <2>. QED BY <2>2, <2>3
<1>7. ASSUME Alive
      PROVE  \/ phase = peer
             \/ /\ phase = "login" /\ peer \in {"configuration", "play"}
                /\ Kind(steps', 1) = "phase"
             \/ phase = "configuration" /\ finished /\ peer = "play"
  <2>1. CASE toServer[1].type = "LoginAcknowledged"
    BY <2>1, <1>1, <1>7 DEF AnsweredFrom, Belongs
  <2>2. CASE toServer[1].type = "AcknowledgeFinish"
    BY <2>2, <1>1, <1>7 DEF AnsweredFrom, Belongs
  <2>3. CASE toServer[1].type \notin {"LoginAcknowledged", "AcknowledgeFinish"}
    BY <2>3, <1>1, <1>7 DEF AnsweredFrom
  <2>. QED BY <2>1, <2>2, <2>3
<1>8. NextInv'
  BY <1>2, <1>3, <1>6, <1>7 DEF NextInv
<1>9. NewInv'
  <2>1. phase # "handshake" /\ peer # "new"
    BY <1>1 DEF LockstepInv, NewInv, Belongs, Driving
  <2>2. verifyToken' => ~cipher'
    BY DEF LockstepInv, NewInv
  <2>. QED BY <2>1, <2>2 DEF LockstepInv, NewInv
<1>10. TypeOK' /\ CountInv'
  <2>1. cipher' \in BOOLEAN /\ verifyToken' \in BOOLEAN
    BY Types DEF LockstepInv
  <2>2. steps' \in Seq(StepSet) /\ toServer' \in Seq(Packets)
    <3>1. steps' \in Seq(StepSet)
      BY DEF Program
    <3>2. toServer' \in Seq(Packets)
      BY <1>1, EmptySeq
    <3>. QED BY <3>1, <3>2
  <2>. QED BY <2>1, <2>2 DEF LockstepInv, TypeOK, CountInv, Wire, Packets
<1>. QED BY <1>4, <1>5, <1>8, <1>9, <1>10 DEF LockstepInv

\* A packet that is received is the first that waits, and read as it was written.
LEMMA Received ==
  ASSUME LockstepInv, NEW t, Receives(t)
  PROVE  /\ toServer # <<>> /\ toServer[1].type = t /\ Head(toServer) = toServer[1]
         /\ steps = <<>> /\ serving /\ open /\ toServer' = Tail(toServer)
         /\ UNCHANGED <<conf, compression, finished, serving, open, online, onRoster, peer,
                        peerCompress, peerCipher, toPeer>>
<1>1. toServer \in Seq(Packets)
  BY Types DEF LockstepInv
<1>. QED BY <1>1, Rest DEF Receives, remote

\* A handler that has nothing to do is a program too.
LEMMA NothingHeldOfProgram ==
  /\ Len(<<>>) = 0 /\ \A ph, v : Program(<<>>, ph, v)
  BY NothingIsAProgram

\* In the login phase, what is written to end it or ask for more is one packet,
\* a request for encryption, or a login completed.
LEMMA LoginSteps ==
  ASSUME NEW s,
         \/ s = <<>> \/ s = <<Write("LoginPluginRequest")>> \/ s = <<Write("Disconnect")>>
         \/ s = AskForEncryption
         \/ \E source \in {"offline", "bungee", "modern", "mojang"} : s = CompleteLogin(source)
  PROVE  /\ Program(s, "login", conf.version)
         /\ \A i \in 1..Len(s) :
              /\ Kind(s, i) = "phase" => What(s, i) = "play" /\ i # 1
              /\ ~(s[i] = Write("EncryptionRequest") /\ i = 1)
              /\ Kind(s, i) # "authenticate"
<1>1. CASE s = <<>>
  BY <1>1, NothingHeldOfProgram
<1>2. ASSUME NEW t \in {"LoginPluginRequest", "Disconnect"}, s = <<Write(t)>>
      PROVE  /\ Program(s, "login", conf.version) /\ Len(s) = 1
             /\ Kind(s, 1) = "write" /\ What(s, 1) = t
  <2>1. t \in Written \ {"LoginSuccess", "EncryptionRequest"} /\ Belongs(t, "login")
    BY DEF Written, Belongs
  <2>. QED BY <1>2, <2>1, OneWriteIsAProgram
<1>3. ASSUME NEW t \in {"LoginPluginRequest", "Disconnect"}, s = <<Write(t)>>
      PROVE  \A i \in 1..Len(s) :
              /\ Kind(s, i) # "phase" /\ Kind(s, i) # "authenticate"
              /\ ~(s[i] = Write("EncryptionRequest") /\ i = 1)
  BY <1>2, <1>3, Named DEF What, Kind
<1>4. CASE s = AskForEncryption
  <2>1. /\ Program(s, "login", conf.version) /\ Len(s) = 2
        /\ Kind(s, 1) = "encrypt" /\ s[2] = Write("EncryptionRequest")
    BY <1>4, AskForEncryptionIsAProgram
  <2>2. s[1] # Write("EncryptionRequest") /\ Kind(s, 2) = "write"
    BY <2>1, Named DEF Kind
  <2>3. \A i \in 1..Len(s) : i = 1 \/ i = 2
    BY <2>1
  <2>. QED BY <2>1, <2>2, <2>3
<1>5. ASSUME NEW source \in {"offline", "bungee", "modern", "mojang"}, s = CompleteLogin(source)
      PROVE  /\ Program(s, "login", conf.version)
             /\ \A i \in 1..Len(s) :
                  /\ Kind(s, i) = "phase" => What(s, i) = "play" /\ i # 1
                  /\ ~(s[i] = Write("EncryptionRequest") /\ i = 1)
                  /\ Kind(s, i) # "authenticate"
  <2>1. /\ Program(s, "login", conf.version) /\ s[1] = SetProfile(source)
        /\ \A i \in 2..Len(s) :
             /\ Kind(s, i) \in {"compress", "write", "phase", "join"}
             /\ Kind(s, i) = "phase" => What(s, i) = "play"
    BY <1>5, CompleteLoginIsAProgram
  <2>2. Kind(s, 1) = "profile" /\ s[1] # Write("EncryptionRequest")
    BY <2>1, Named DEF Kind
  <2>3. \A i \in 1..Len(s) : i = 1 \/ i \in 2..Len(s)
    BY <2>1 DEF Program
  <2>. QED BY <2>1, <2>2, <2>3
<1>. QED BY <1>1, <1>2, <1>3, <1>4, <1>5

\* A login start is answered by a question, a login completed, or nothing.
LEMMA HandleLoginStartKeeps ==
  ASSUME LockstepInv, HandleLoginStart
  PROVE  LockstepInv'
<1>1. /\ toServer # <<>> /\ toServer[1].type = "LoginStart" /\ serving
      /\ toServer' = Tail(toServer)
      /\ UNCHANGED <<conf, phase, compression, finished, keepAlive, serving, open, online,
                     onRoster, peer, peerCompress, peerCipher, toPeer>>
      /\ cipher' = cipher /\ verifyToken' = verifyToken /\ forwarded' = forwarded
      /\ profile' = "claimed"
  BY Received DEF HandleLoginStart
<1>2. phase = "login"
  BY <1>1, DrivingAlone DEF Driving, Belongs
<1>3. \/ steps' = <<>> \/ steps' = <<Write("LoginPluginRequest")>> \/ steps' = AskForEncryption
      \/ \E source \in {"offline", "bungee", "modern", "mojang"} : steps' = CompleteLogin(source)
  <2>1. forwarded \in {"nobody", "bungee", "modern"}
    BY DEF LockstepInv, TypeOK
  <2>2. (IF forwarded = "nobody" THEN "offline" ELSE forwarded) \in {"offline", "bungee", "modern"}
    BY <2>1
  <2>3. \/ SettleWithoutTheProxy = AskForEncryption
        \/ SettleWithoutTheProxy = CompleteLogin("offline")
    BY DEF SettleWithoutTheProxy
  <2>4. \/ steps' = <<>> \/ steps' = <<Write("LoginPluginRequest")>>
        \/ steps' = SettleWithoutTheProxy \/ steps' = AskForEncryption
        \/ steps' = CompleteLogin(IF forwarded = "nobody" THEN "offline" ELSE forwarded)
    BY Zenon DEF HandleLoginStart
  <2>. QED BY <2>2, <2>3, <2>4
<1>4. /\ Program(steps', "login", conf.version)
      /\ \A i \in 1..Len(steps') :
           /\ Kind(steps', i) = "phase" => What(steps', i) = "play" /\ i # 1
           /\ ~(steps'[i] = Write("EncryptionRequest") /\ i = 1)
           /\ Kind(steps', i) # "authenticate"
  BY <1>3, LoginSteps
<1>5. /\ forwarding' \in BOOLEAN /\ forwarded' \in {"nobody", "bungee", "modern"}
      /\ profile' \in Sources
  <2>1. forwarding' \in BOOLEAN
    BY Types DEF LockstepInv, HandleLoginStart
  <2>. QED BY <2>1, <1>1 DEF LockstepInv, TypeOK, Sources
<1>6. toServer[1].type \in Driving \ (EncryptionAnswers \cup {"LoginAcknowledged"})
  BY <1>1 DEF Driving, EncryptionAnswers
<1>. QED BY <1>1, <1>2, <1>4, <1>5, <1>6, DrivingHandled

\* The answers to a forwarding request.
LEMMA ForwardingHandled ==
  ASSUME LockstepInv,
         HandleForwardingSigned \/ HandleForwardingUnsigned \/ HandleForwardingUnknown
  PROVE  LockstepInv'
<1>1. /\ toServer # <<>> /\ serving
      /\ toServer[1].type \in {"ForwardingSigned", "ForwardingUnsigned", "ForwardingUnknown"}
      /\ toServer' = Tail(toServer)
      /\ UNCHANGED <<conf, phase, compression, finished, keepAlive, serving, open, online,
                     onRoster, peer, peerCompress, peerCipher, toPeer>>
      /\ cipher' = cipher /\ verifyToken' = verifyToken /\ profile' = profile
  <2>1. CASE HandleForwardingSigned
    BY <2>1, Received DEF HandleForwardingSigned
  <2>2. CASE HandleForwardingUnsigned
    BY <2>2, Received DEF HandleForwardingUnsigned
  <2>3. CASE HandleForwardingUnknown
    BY <2>3, Received DEF HandleForwardingUnknown
  <2>. QED BY <2>1, <2>2, <2>3
<1>2. phase = "login"
  BY <1>1, DrivingAlone DEF Driving, Belongs
<1>3. /\ \/ steps' = <<Write("Disconnect")>> \/ steps' = AskForEncryption
         \/ \E source \in {"offline", "bungee", "modern", "mojang"} :
              steps' = CompleteLogin(source)
      /\ forwarding' = forwarding \/ forwarding' = FALSE
      /\ forwarded' = forwarded \/ forwarded' = "modern"
  <2>1. CASE HandleForwardingSigned
    BY <2>1, Zenon DEF HandleForwardingSigned
  <2>2. CASE HandleForwardingUnsigned
    BY <2>2 DEF HandleForwardingUnsigned
  <2>3. CASE HandleForwardingUnknown
    <3>1. \/ SettleWithoutTheProxy = AskForEncryption
          \/ SettleWithoutTheProxy = CompleteLogin("offline")
      BY DEF SettleWithoutTheProxy
    <3>2. /\ steps' = SettleWithoutTheProxy \/ steps' = <<Write("Disconnect")>>
          /\ forwarding' = FALSE /\ forwarded' = forwarded
      BY <2>3, Zenon DEF HandleForwardingUnknown
    <3>. QED BY <3>1, <3>2
  <2>. QED BY <2>1, <2>2, <2>3
<1>4. /\ Program(steps', "login", conf.version)
      /\ \A i \in 1..Len(steps') :
           /\ Kind(steps', i) = "phase" => What(steps', i) = "play" /\ i # 1
           /\ ~(steps'[i] = Write("EncryptionRequest") /\ i = 1)
           /\ Kind(steps', i) # "authenticate"
  BY <1>3, LoginSteps
<1>5. /\ forwarding' \in BOOLEAN /\ forwarded' \in {"nobody", "bungee", "modern"}
      /\ profile' \in Sources
  <2>1. forwarding' \in BOOLEAN
    BY <1>3, Types DEF LockstepInv
  <2>. QED BY <2>1, <1>1, <1>3 DEF LockstepInv, TypeOK
<1>6. toServer[1].type \in Driving \ (EncryptionAnswers \cup {"LoginAcknowledged"})
  BY <1>1 DEF Driving, EncryptionAnswers
<1>. QED BY <1>1, <1>2, <1>4, <1>5, <1>6, DrivingHandled

\* The answer to the encryption request always completes it: the request that it
\* answers is waiting, and a challenge is signed only where it may be.
LEMMA HandleEncryptionResponseKeeps ==
  ASSUME LockstepInv, HandleEncryptionResponse
  PROVE  /\ LockstepInv'
         /\ cipher' = TRUE /\ verifyToken' = FALSE /\ steps' = <<<<"authenticate", "">>>>
<1>1. /\ toServer # <<>> /\ serving /\ Head(toServer) = toServer[1]
      /\ toServer[1].type \in {"EncryptionResponse", "SignedChallenge"}
      /\ toServer' = Tail(toServer)
      /\ UNCHANGED <<conf, phase, compression, finished, keepAlive, serving, open, online,
                     onRoster, peer, peerCompress, peerCipher, toPeer>>
      /\ UNCHANGED <<forwarding, forwarded, profile>>
  BY Received DEF HandleEncryptionResponse
<1>2. toServer[1].type \in Driving \ {"LoginAcknowledged"} /\ toServer[1].type \in EncryptionAnswers
  BY <1>1 DEF Driving, EncryptionAnswers
<1>3. /\ phase = "login" /\ verifyToken
      /\ toServer[1].type = "SignedChallenge" => MaySignEncryptionChallenge(conf.version)
  BY <1>1, <1>2, DrivingAlone DEF Belongs
<1>4. /\ verifyToken
      /\ \/ Head(toServer).type = "EncryptionResponse"
         \/ MaySignEncryptionChallenge(conf.version)
  BY <1>1, <1>3
<1>5. cipher' = TRUE /\ verifyToken' = FALSE /\ steps' = <<<<"authenticate", "">>>>
  BY <1>4 DEF HandleEncryptionResponse
<1>6. /\ Program(steps', phase, conf.version)
      /\ \A i \in 1..Len(steps') : Kind(steps', i) = "authenticate"
      /\ \A i \in 1..Len(steps') : steps'[i] # Write("EncryptionRequest")
  <2>1. /\ Program(steps', "login", conf.version) /\ Len(steps') = 1
        /\ Kind(steps', 1) = "authenticate"
    BY <1>5, AuthenticateIsAProgram
  <2>2. \A i \in 1..Len(steps') : i = 1
    BY <2>1
  <2>. QED BY <2>1, <2>2, <1>3, Named DEF Kind
<1>7. /\ forwarding' \in BOOLEAN /\ forwarded' \in {"nobody", "bungee", "modern"}
      /\ profile' \in Sources
  BY <1>1 DEF LockstepInv, TypeOK
<1>8. LockstepInv'
  BY <1>1, <1>2, <1>5, <1>6, <1>7, DrivingHandled
<1>. QED BY <1>5, <1>8

\* A login acknowledged takes the connection to the configuration phase, where the
\* peer already is.
LEMMA HandleLoginAcknowledgedKeeps ==
  ASSUME LockstepInv, HandleLoginAcknowledged
  PROVE  LockstepInv'
<1>1. /\ toServer # <<>> /\ serving /\ toServer[1].type = "LoginAcknowledged"
      /\ toServer' = Tail(toServer)
      /\ UNCHANGED <<conf, phase, compression, finished, keepAlive, serving, open, online,
                     onRoster, peer, peerCompress, peerCipher, toPeer>>
      /\ UNCHANGED <<cipher, verifyToken, forwarding, forwarded, profile>>
      /\ steps' = <<SetPhase("configuration"), Write("Registries"),
                    Write("FinishConfiguration")>>
  BY Received DEF HandleLoginAcknowledged
<1>2. toServer[1].type \in Driving \ EncryptionAnswers
  BY <1>1 DEF Driving, EncryptionAnswers
<1>3. /\ phase = "login" /\ HasConfigurationPhase(conf.version)
      /\ Alive => peer = "configuration"
  BY <1>1, <1>2, DrivingAlone DEF Belongs, AnsweredFrom
<1>4. /\ Program(steps', phase, conf.version)
      /\ Kind(steps', 1) = "phase" /\ What(steps', 1) = "configuration"
      /\ \A i \in 1..Len(steps') : i = 1 \/ Kind(steps', i) = "write"
      /\ steps'[1] # Write("EncryptionRequest")
  <2>1. /\ Program(steps', "login", conf.version) /\ Len(steps') = 3
        /\ Kind(steps', 1) = "phase" /\ What(steps', 1) = "configuration"
        /\ Kind(steps', 2) = "write" /\ Kind(steps', 3) = "write"
    BY <1>1, <1>3, LoginAcknowledgedIsAProgram
  <2>2. \A i \in 1..Len(steps') : i = 1 \/ i = 2 \/ i = 3
    BY <2>1
  <2>. QED BY <2>1, <2>2, <1>3, Named DEF Kind
<1>5. /\ forwarding' \in BOOLEAN /\ forwarded' \in {"nobody", "bungee", "modern"}
      /\ profile' \in Sources
  BY <1>1 DEF LockstepInv, TypeOK
<1>. QED BY <1>1, <1>2, <1>3, <1>4, <1>5, DrivingHandled

\* Finish acknowledged takes it to play, where the peer already is.
LEMMA HandleAcknowledgeFinishKeeps ==
  ASSUME LockstepInv, HandleAcknowledgeFinish
  PROVE  LockstepInv'
<1>1. /\ toServer # <<>> /\ serving /\ toServer[1].type = "AcknowledgeFinish"
      /\ toServer' = Tail(toServer)
      /\ UNCHANGED <<conf, phase, compression, finished, keepAlive, serving, open, online,
                     onRoster, peer, peerCompress, peerCipher, toPeer>>
      /\ UNCHANGED <<cipher, verifyToken, forwarding, forwarded, profile>>
      /\ steps' = EnterPlay
  BY Received DEF HandleAcknowledgeFinish
<1>2. toServer[1].type \in Driving \ (EncryptionAnswers \cup {"LoginAcknowledged"})
  BY <1>1 DEF Driving, EncryptionAnswers
<1>3. phase = "configuration" /\ finished /\ (Alive => peer = "play")
  BY <1>1, <1>2, DrivingAlone DEF Belongs, AnsweredFrom
<1>4. /\ Program(steps', phase, conf.version)
      /\ Kind(steps', 1) = "phase" /\ What(steps', 1) = "play"
      /\ \A i \in 1..Len(steps') : i = 1 \/ Kind(steps', i) \in {"write", "join"}
      /\ steps'[1] # Write("EncryptionRequest")
  <2>1. /\ Len(steps') \in {7, 8} /\ steps'[1] = SetPhase("play")
        /\ \A i \in 2..Len(steps') : Kind(steps', i) \in {"write", "join"}
    BY <1>1, EnterPlaySteps DEF Kind
  <2>2. \A i \in 1..Len(steps') : i = 1 \/ i \in 2..Len(steps')
    BY <2>1
  <2>. QED BY <2>1, <2>2, <1>1, EnterPlayIsAProgram, Named DEF Kind, What
<1>5. /\ forwarding' \in BOOLEAN /\ forwarded' \in {"nobody", "bungee", "modern"}
      /\ profile' \in Sources
  BY <1>1 DEF LockstepInv, TypeOK
<1>. QED BY <1>1, <1>2, <1>3, <1>4, <1>5, DrivingHandled

\* A question about the status is answered by one packet.
LEMMA HandlePingKeeps ==
  ASSUME LockstepInv, HandlePing
  PROVE  LockstepInv'
<1>1. PICK ask \in {"StatusRequest", "PingRequest"} :
        /\ Receives(ask)
        /\ steps' = <<Write(IF ask = "StatusRequest" THEN "StatusResponse" ELSE "PongResponse")>>
        /\ UNCHANGED <<phase, cipher, verifyToken, forwarding, forwarded, profile, keepAlive>>
  BY DEF HandlePing
<1>2. /\ toServer # <<>> /\ serving /\ toServer[1].type = ask
      /\ toServer' = Tail(toServer)
      /\ UNCHANGED <<conf, phase, compression, finished, keepAlive, serving, open, online,
                     onRoster, peer, peerCompress, peerCipher, toPeer>>
  BY <1>1, Received
<1>3. toServer[1].type \in Driving \ (EncryptionAnswers \cup {"LoginAcknowledged"})
  BY <1>2 DEF Driving, EncryptionAnswers
<1>4. phase = "status"
  BY <1>2, <1>3, DrivingAlone DEF Belongs
<1>5. /\ Program(steps', phase, conf.version)
      /\ \A i \in 1..Len(steps') :
           Kind(steps', i) = "write" /\ steps'[i] # Write("EncryptionRequest")
  <2>1. PICK t \in {"StatusResponse", "PongResponse"} : steps' = <<Write(t)>>
    BY <1>1
  <2>2. t \in Written \ {"LoginSuccess", "EncryptionRequest"} /\ Belongs(t, "status")
    BY DEF Written, Belongs
  <2>3. /\ Program(steps', "status", conf.version) /\ Len(steps') = 1
        /\ Kind(steps', 1) = "write" /\ What(steps', 1) = t
    BY <2>1, <2>2, OneWriteIsAProgram
  <2>4. \A i \in 1..Len(steps') : i = 1
    BY <2>3
  <2>. QED BY <2>3, <2>4, <1>4, Named DEF Kind, What
<1>6. /\ forwarding' \in BOOLEAN /\ forwarded' \in {"nobody", "bungee", "modern"}
      /\ profile' \in Sources
  BY <1>1 DEF LockstepInv, TypeOK
<1>. QED BY <1>1, <1>2, <1>3, <1>5, <1>6, DrivingHandled

\* The handshake takes the connection to the phase that the packet behind it was
\* written in.
LEMMA HandleHandshakeKeeps ==
  ASSUME LockstepInv, HandleHandshake
  PROVE  LockstepInv'
<1>1. /\ toServer # <<>> /\ toServer[1].type = "Handshake" /\ serving /\ steps = <<>>
      /\ toServer' = Tail(toServer) /\ steps' = <<>>
      /\ UNCHANGED <<conf, compression, finished, keepAlive, serving, open, online,
                     onRoster, peer, peerCompress, peerCipher, toPeer>>
      /\ UNCHANGED <<cipher, verifyToken, forwarding, profile>>
      /\ phase' = conf.intent
      /\ forwarded' \in {forwarded, "bungee"}
  BY Received DEF HandleHandshake
<1>2. toServer \in Seq(Packets) /\ 1 \in 1..Len(toServer) /\ Len(toServer) \in Nat
  BY <1>1, Types DEF LockstepInv
<1>3. Len(toServer) = 2 /\ toServer[2].type \in Driving /\ toServer[1].phase = "handshake"
  BY <1>1, <1>2 DEF LockstepInv, ToServerInv, Belongs
<1>4. phase = "handshake"
  BY <1>2, <1>3 DEF LockstepInv, ToServerInv
<1>5. conf.intent \in {"status", "login"}
  BY ConfigTypes DEF LockstepInv, TypeOK
<1>6. /\ toServer[2].phase = conf.intent
      /\ toServer[2].compressed = compression /\ toServer[2].enciphered = cipher
      /\ Belongs(toServer[2].type, toServer[2].phase)
      /\ toPeer = <<>> /\ Caught(AnsweredFrom(toServer[2]))
      /\ toServer[2].type \notin EncryptionAnswers
      /\ toServer[2].type = "AcknowledgeFinish" => finished
      /\ toServer[2].type = "LoginAcknowledged" => HasConfigurationPhase(conf.version)
  <2>1. 2 \in 1..Len(toServer)
    BY <1>3
  <2>2. ~verifyToken
    BY <1>4 DEF LockstepInv, NewInv
  <2>3. /\ Belongs(toServer[2].type, toServer[2].phase)
        /\ toServer[2].phase = phase \/ toServer[2].phase = conf.intent
    BY <2>1 DEF LockstepInv, ToServerInv
  <2>4. toServer[2].phase = conf.intent
    BY <2>3, <1>3, <1>4 DEF Belongs, Driving
  <2>. QED BY <2>1, <2>2, <2>4, <1>3 DEF LockstepInv, ToServerInv
<1>7. /\ Tail(toServer) \in Seq(Packets) /\ Len(toServer') = 1
      /\ toServer'[1] = toServer[2] /\ \A i \in 1..Len(toServer') : i = 1
  <2>1. /\ Tail(toServer) \in Seq(Packets) /\ Len(Tail(toServer)) = 1
        /\ \A i \in 1..Len(Tail(toServer)) : Tail(toServer)[i] = toServer[i + 1]
    BY <1>1, <1>2, <1>3, Rest
  <2>2. 1 \in 1..Len(Tail(toServer)) /\ 1 + 1 = 2
    BY <2>1
  <2>3. Tail(toServer)[1] = toServer[2]
    BY <2>1, <2>2
  <2>4. \A i \in 1..1 : i = 1
    OBVIOUS
  <2>. QED BY <2>1, <2>3, <2>4, <1>1
<1>8. Alive' = Alive /\ PeerEnd' = PeerEnd
  BY <1>1 DEF Alive, PeerEnd
<1>9. PeerEnd = peer
  BY <1>6, EmptyHolds DEF PeerEnd, EndOf
<1>10. StepsInv'
  BY <1>1, NothingHeldOfProgram DEF StepsInv
<1>11. ToServerInv'
  <2>1. Alive' => PeerEnd' = AnsweredFrom(toServer'[1])
    BY <1>6, <1>7, <1>8 DEF Caught
  <2>2. toServer[2].type # "Handshake"
    BY <1>3 DEF Driving
  <2>3. toServer[2].type # "SignedChallenge"
    BY <1>6 DEF EncryptionAnswers
  <2> SUFFICES ASSUME NEW i \in 1..Len(toServer')
               PROVE  LET p == toServer'[i] IN
    /\ p.compressed = compression /\ p.enciphered = cipher
    /\ Belongs(p.type, p.phase) /\ p.type \in Driving
    /\ p.phase = phase'
    /\ p.type # "Handshake"
    /\ i = Len(toServer') /\ steps' = <<>> /\ toPeer' = <<>>
    /\ Alive' => PeerEnd' = AnsweredFrom(p)
    /\ p.type = "AcknowledgeFinish" => finished
    /\ p.type = "LoginAcknowledged" => HasConfigurationPhase(conf.version)
    /\ p.type \notin EncryptionAnswers
    /\ p.type # "SignedChallenge"
    BY <1>1 DEF ToServerInv, Caught
  <2>4. i = 1
    BY <1>7
  <2>. QED BY <2>1, <2>2, <2>3, <2>4, <1>1, <1>3, <1>6, <1>7
<1>12. ToPeerInv' /\ PeerInv'
  <2>1. \A i \in 1..Len(toPeer') : FALSE
    BY <1>1, <1>6, EmptyRange
  <2>2. ToPeerInv'
    BY <2>1, Zenon DEF ToPeerInv
  <2>3. PeerInv'
    BY <2>1, Zenon DEF PeerInv
  <2>. QED BY <2>2, <2>3
<1>13. NextInv'
  <2> SUFFICES ASSUME Alive
               PROVE  /\ compression = (peerCompress \/ Holds(toPeer, "SetCompression"))
                      /\ cipher = peerCipher
                      /\ conf.intent = peer
    BY <1>1, <1>8, <1>9 DEF NextInv
  <2>1. \A i \in 1..Len(toServer) : toServer[i].type \notin EncryptionAnswers
    <3>1. \A i \in 1..Len(toServer) : i = 1 \/ i = 2
      BY <1>3
    <3>. QED BY <3>1, <1>1, <1>6 DEF EncryptionAnswers
  <2>2. peer # "handshake"
    BY DEF LockstepInv, TypeOK
  <2>. QED BY <2>1, <2>2, <1>4, <1>9 DEF LockstepInv, NextInv
<1>14. NewInv'
  BY <1>1, <1>4, <1>5 DEF LockstepInv, NewInv
<1>15. TypeOK' /\ CountInv'
  <2>1. phase' \in Phases /\ phase' # "play" /\ phase # "play"
    BY <1>1, <1>4, <1>5 DEF Phases
  <2>. QED BY <2>1, <1>1, <1>7 DEF LockstepInv, TypeOK, CountInv, Wire, Packets
<1>. QED BY <1>10, <1>11, <1>12, <1>13, <1>14, <1>15 DEF LockstepInv

\* What is not answered leaves the queue behind it as it is.
LEMMA Consumed ==
  ASSUME LockstepInv, toServer # <<>>, toServer[1].type \in {"KeepAlive", "MovePlayer"},
         toServer' = Tail(toServer), steps' = steps, steps = <<>>,
         UNCHANGED <<conf, phase, compression, cipher, verifyToken, forwarding, forwarded,
                     profile, finished, serving, open, online, onRoster, peer, peerCompress,
                     peerCipher, toPeer>>,
         keepAlive' \in BOOLEAN
  PROVE  LockstepInv'
<1>1. /\ toServer \in Seq(Packets) /\ Len(toServer) \in Nat /\ Len(toServer) >= 1
      /\ toServer' \in Seq(Packets) /\ Len(toServer') = Len(toServer) - 1
      /\ \A i \in 1..Len(toServer') : i + 1 \in 1..Len(toServer) /\ toServer'[i] = toServer[i + 1]
  BY Types, Rest DEF LockstepInv
<1>2. Alive' = Alive /\ PeerEnd' = PeerEnd
  BY DEF Alive, PeerEnd
<1>3. phase # "handshake"
  <2>1. 1 \in 1..Len(toServer)
    BY <1>1
  <2>. QED BY <2>1 DEF LockstepInv, ToServerInv, Belongs
<1>4. StepsInv'
  BY NothingHeldOfProgram DEF LockstepInv, StepsInv
<1>5. ASSUME NEW i \in 1..Len(toServer')
      PROVE  LET p == toServer'[i] IN
        /\ p.compressed = compression /\ p.enciphered = cipher
        /\ Belongs(p.type, p.phase)
        /\ p.type \in Driving \cup {"Handshake", "KeepAlive", "MovePlayer"}
        /\ p.phase = phase
        /\ p.type # "Handshake"
        /\ p.type \in Driving => i = Len(toServer') /\ steps = <<>> /\ toPeer = <<>>
        /\ p.type \in Driving => Caught(AnsweredFrom(p))
        /\ p.type = "AcknowledgeFinish" => finished
        /\ p.type = "LoginAcknowledged" => HasConfigurationPhase(conf.version)
        /\ p.type \in EncryptionAnswers => verifyToken /\ (Alive => peerCipher)
        /\ p.type = "SignedChallenge" => MaySignEncryptionChallenge(conf.version)
  <2> DEFINE j == i + 1
  <2>1. j \in 1..Len(toServer) /\ j # 1 /\ toServer'[i] = toServer[j]
        /\ (j = Len(toServer) => i = Len(toServer'))
    BY <1>1
  <2>2. LET p == toServer[j] IN
        /\ p.compressed = compression /\ p.enciphered = cipher
        /\ Belongs(p.type, p.phase)
        /\ p.type \in Driving \cup {"Handshake", "KeepAlive", "MovePlayer"}
        /\ p.phase = phase
        /\ p.type # "Handshake"
        /\ p.type \in Driving => j = Len(toServer) /\ steps = <<>> /\ toPeer = <<>>
        /\ p.type \in Driving => Caught(AnsweredFrom(p))
        /\ p.type = "AcknowledgeFinish" => finished
        /\ p.type = "LoginAcknowledged" => HasConfigurationPhase(conf.version)
        /\ p.type \in EncryptionAnswers => verifyToken /\ (Alive => peerCipher)
        /\ p.type = "SignedChallenge" => MaySignEncryptionChallenge(conf.version)
    BY <2>1 DEF LockstepInv, ToServerInv
  <2>. QED BY <2>1, <2>2
<1>6. ToServerInv'
  <2>1. \A p : Caught(AnsweredFrom(p)) => (Alive' => PeerEnd' = AnsweredFrom(p))
    BY <1>2 DEF Caught
  <2>2. ASSUME NEW i \in 1..Len(toServer')
        PROVE  toServer'[i].type \in Driving => (Alive' => PeerEnd' = AnsweredFrom(toServer'[i]))
    BY <2>1, <1>5
  <2>. QED BY <2>2, <1>2, <1>5 DEF ToServerInv, Caught
<1>7. ToPeerInv' /\ PeerInv'
  BY <1>2 DEF LockstepInv, ToPeerInv, PeerInv
<1>8. NextInv'
  <2>1. ASSUME NEW i \in 1..Len(toServer), toServer[i].type \in EncryptionAnswers
        PROVE  \E j \in 1..Len(toServer') : toServer'[j].type \in EncryptionAnswers
    <3>1. i # 1
      BY <2>1 DEF EncryptionAnswers
    <3>2. i - 1 \in 1..Len(toServer') /\ (i - 1) + 1 = i
      BY <3>1, <1>1
    <3>. QED BY <2>1, <3>2, <1>1
  <2>. QED BY <2>1, <1>2, <1>3 DEF LockstepInv, NextInv
<1>9. NewInv' /\ TypeOK' /\ CountInv'
  BY <1>1, <1>3 DEF LockstepInv, NewInv, TypeOK, CountInv, Wire, Packets
<1>. QED BY <1>4, <1>6, <1>7, <1>8, <1>9 DEF LockstepInv

\* An answer to a keep alive is such a packet,
LEMMA HandleKeepAliveKeeps ==
  ASSUME LockstepInv, HandleKeepAlive
  PROVE  LockstepInv'
<1>1. /\ toServer # <<>> /\ toServer[1].type = "KeepAlive" /\ steps = <<>>
      /\ toServer' = Tail(toServer) /\ steps' = steps
      /\ UNCHANGED <<conf, phase, compression, cipher, verifyToken, forwarding, forwarded,
                     profile, finished, serving, open, online, onRoster, peer, peerCompress,
                     peerCipher, toPeer>>
      /\ keepAlive' = FALSE
  BY Received DEF HandleKeepAlive
<1>. QED BY <1>1, Consumed

\* There is never a packet that the server can make no sense of.
LEMMA HandleNothingKeeps ==
  ASSUME LockstepInv, HandleNothing
  PROVE  LockstepInv'
<1>1. /\ toServer # <<>> /\ steps = <<>> /\ toServer' = Tail(toServer) /\ steps' = steps
      /\ UNCHANGED <<conf, phase, compression, cipher, verifyToken, forwarding, forwarded,
                     profile, finished, serving, open, online, onRoster, peer, peerCompress,
                     peerCipher, toPeer>>
      /\ keepAlive' = keepAlive
      /\ Head(toServer).type = "MovePlayer" \/ ~ServerReads(Head(toServer))
  BY DEF HandleNothing, client, loop, remote
<1>2. toServer \in Seq(Packets) /\ Head(toServer) = toServer[1] /\ 1 \in 1..Len(toServer)
  BY <1>1, Types, Rest DEF LockstepInv
<1>3. ServerReads(toServer[1])
  BY <1>2 DEF LockstepInv, ToServerInv, ServerReads
<1>4. toServer[1].type = "MovePlayer" /\ keepAlive' \in BOOLEAN
  BY <1>1, <1>2, <1>3, Types DEF LockstepInv
<1>. QED BY <1>1, <1>4, Consumed

-------------------------------------------------------------------------------
(* The read loop's end, the sweep and the peer                                *)

\* The end of the read loop counts a player out, takes it off the roster and
\* closes the socket, and leaves the wires as they are.
LEMMA EndOfRunKeeps ==
  ASSUME LockstepInv, EndOfRun \/ LeaveRoster \/ Close
  PROVE  LockstepInv'
<1>1. /\ serving' \in BOOLEAN /\ open' \in BOOLEAN
      /\ steps' = steps /\ steps = <<>>
      /\ online' = IF serving /\ ~serving' /\ phase = "play" THEN online - 1 ELSE online
      /\ serving' => serving
      /\ onRoster' \in BOOLEAN
      /\ onRoster' => onRoster
      /\ UNCHANGED <<conf, phase, compression, cipher, verifyToken, forwarding, forwarded,
                     profile, finished, keepAlive, peer, peerCompress, peerCipher, toServer,
                     toPeer>>
  <2>1. open \in BOOLEAN /\ serving \in BOOLEAN /\ onRoster \in BOOLEAN
    BY Types DEF LockstepInv
  <2>2. ~serving => steps = <<>>
    BY DEF LockstepInv, StepsInv
  <2>3. CASE EndOfRun
    BY <2>1, <2>3 DEF EndOfRun, ClosedFirst, client, remote, wires
  <2>4. CASE LeaveRoster
    BY <2>1, <2>2, <2>4 DEF LeaveRoster, client, remote, wires
  <2>5. CASE Close
    BY <2>1, <2>2, <2>5 DEF Close, client, remote, wires
  <2>. QED BY <2>3, <2>4, <2>5
<1>2. Alive' = Alive /\ PeerEnd' = PeerEnd
  BY <1>1 DEF Alive, PeerEnd
<1>3. StepsInv'
  BY <1>1, NothingHeldOfProgram DEF StepsInv
<1>4. ToServerInv'
  <2>1. \A p : Caught(AnsweredFrom(p)) => (Alive' => PeerEnd' = AnsweredFrom(p))
    BY <1>2 DEF Caught
  <2>2. ASSUME NEW i \in 1..Len(toServer)
        PROVE  toServer[i].type \in Driving => (Alive' => PeerEnd' = AnsweredFrom(toServer[i]))
    BY <2>1 DEF LockstepInv, ToServerInv
  <2>. QED BY <2>2, <1>1, <1>2 DEF LockstepInv, ToServerInv, Caught
<1>5. ToPeerInv' /\ PeerInv'
  BY <1>1, <1>2 DEF LockstepInv, ToPeerInv, PeerInv
<1>6. NextInv'
  BY <1>1, <1>2 DEF LockstepInv, NextInv
<1>7. NewInv'
  BY <1>1 DEF LockstepInv, NewInv
<1>8. TypeOK' /\ CountInv'
  <2>1. online' = IF serving' /\ phase' = "play" THEN 1 ELSE 0
    <3>1. online = IF serving /\ phase = "play" THEN 1 ELSE 0
      BY DEF LockstepInv, CountInv
    <3>2. CASE serving /\ ~serving'
      <4>1. online' = IF phase = "play" THEN online - 1 ELSE online
        BY <1>1, <3>2
      <4>. QED BY <4>1, <3>1, <3>2
    <3>3. CASE ~(serving /\ ~serving')
      <4>1. online' = online /\ (serving' <=> serving) /\ phase' = phase
        BY <1>1, <3>3
      <4>. QED BY <4>1, <3>1
    <3>. QED BY <3>2, <3>3
  <2>2. CountInv'
    BY <2>1, <1>1 DEF LockstepInv, CountInv
  <2>3. online' \in {0, 1}
    BY <2>1
  <2>4. TypeOK'
    BY <1>1, <2>3 DEF LockstepInv, TypeOK
  <2>. QED BY <2>2, <2>4
<1>. QED BY <1>3, <1>4, <1>5, <1>6, <1>7, <1>8 DEF LockstepInv

\* A keep alive of the sweep goes out in turn, or the sweep closes the socket.
LEMMA SweepKeeps ==
  ASSUME LockstepInv, Sweep
  PROVE  LockstepInv'
<1>1. /\ phase = "play" \/ (phase = "configuration" /\ ~finished)
      /\ UNCHANGED <<conf, phase, compression, cipher, verifyToken, forwarding, forwarded,
                     profile, finished, steps, serving, online, onRoster, peer, peerCompress,
                     peerCipher, toServer>>
      /\ open' = open \/ open' = FALSE
      /\ keepAlive' = keepAlive \/ keepAlive' = TRUE
  BY DEF Sweep, remote
<1>2. toPeer' = toPeer \/ Send("KeepAlive")
  BY DEF Sweep
<1>3. /\ \A i \in 1..Len(toServer) :
           toServer[i].type \in {"KeepAlive", "MovePlayer"} /\ toServer[i].phase = phase
      /\ \A i \in 1..Len(toPeer) : ~Asking(toPeer[i].type, conf.version)
      /\ Alive => phase = PeerEnd /\ cipher = peerCipher
  BY <1>1, SweepInTurn
<1>4. Alive' = Alive
  BY <1>1 DEF Alive
<1>5. /\ ToServerInv' /\ ToPeerInv' /\ PeerInv' /\ toPeer' \in Seq(Packets)
      /\ Alive' => compression' = (peerCompress' \/ Holds(toPeer', "SetCompression"))
      /\ PeerEnd' = PeerEnd
  <2>1. CASE toPeer' = toPeer
    <3>1. PeerEnd' = PeerEnd
      BY <2>1, <1>1 DEF PeerEnd
    <3>2. ToServerInv'
      BY <1>1, <1>3 DEF LockstepInv, ToServerInv, Driving, EncryptionAnswers
    <3>3. ToPeerInv' /\ PeerInv'
      BY <1>1, <1>3, <1>4, <2>1 DEF LockstepInv, ToPeerInv, PeerInv
    <3>4. toPeer' \in Seq(Packets)
      BY <2>1, Types DEF LockstepInv
    <3>5. Alive' => compression' = (peerCompress' \/ Holds(toPeer', "SetCompression"))
      BY <1>1, <1>4, <2>1 DEF LockstepInv, NextInv
    <3>. QED BY <3>1, <3>2, <3>3, <3>4, <3>5
  <2>2. CASE Send("KeepAlive")
    <3> DEFINE t == "KeepAlive"
    <3>1. /\ t \in Written \cup {"SetCompression", "KeepAlive"} /\ FALSE \in BOOLEAN
          /\ t # "FinishConfiguration" /\ t # "EncryptionRequest" /\ t # "LoginSuccess"
          /\ t # "SetCompression"
      OBVIOUS
    <3>2. Belongs(t, phase) /\ ~Asking(t, conf.version)
      BY <1>1 DEF Belongs, Asking
    <3>3. toPeer' = Append(toPeer, Packet(t, phase, compression, cipher, FALSE))
      BY <2>2 DEF Send
    <3> HIDE DEF t
    <3>4. compression' = (compression \/ t = "SetCompression")
      BY <3>1, <1>1, Types DEF LockstepInv
    <3>. QED BY <1>1, <1>3, <3>1, <3>2, <3>3, <3>4, Sends
  <2>. QED BY <2>1, <2>2, <1>2
<1>6. StepsInv'
  <2>1. \A i \in 1..Len(steps) : Kind(steps, i) # "phase"
    BY <1>1 DEF LockstepInv, StepsInv
  <2>. QED BY <1>1, <2>1 DEF LockstepInv, StepsInv
<1>7. NextInv'
  BY <1>1, <1>3, <1>4, <1>5 DEF NextInv
<1>8. NewInv'
  BY <1>1 DEF LockstepInv, NewInv
<1>9. TypeOK' /\ CountInv'
  <2>1. open' \in BOOLEAN /\ keepAlive' \in BOOLEAN
    BY <1>1, Types DEF LockstepInv
  <2>. QED BY <1>1, <1>5, <2>1 DEF LockstepInv, TypeOK, CountInv, Wire, Packets
<1>. QED BY <1>5, <1>6, <1>7, <1>8, <1>9 DEF LockstepInv

\* A peer that stops is no longer owed anything.
LEMMA PeerStopsKeeps ==
  ASSUME LockstepInv, PeerStops
  PROVE  LockstepInv'
<1>1. /\ peer' \in {"stopped", "closed"}
      /\ UNCHANGED <<conf, phase, compression, cipher, verifyToken, forwarding, forwarded,
                     profile, finished, keepAlive, steps, open, serving, online, onRoster,
                     peerCompress, peerCipher, toServer, toPeer>>
  BY DEF PeerStops, client, loop, wires
<1>2. ~Alive'
  BY <1>1 DEF Alive
<1>3. StepsInv'
  BY <1>1, <1>2 DEF LockstepInv, StepsInv, Caught
<1>4. ToServerInv'
  BY <1>1, <1>2 DEF LockstepInv, ToServerInv, Caught
<1>5. ToPeerInv' /\ PeerInv'
  BY <1>1, <1>2 DEF LockstepInv, ToPeerInv, PeerInv
<1>6. NextInv'
  BY <1>2 DEF NextInv
<1>7. NewInv' /\ TypeOK' /\ CountInv'
  BY <1>1 DEF LockstepInv, NewInv, TypeOK, CountInv
<1>. QED BY <1>3, <1>4, <1>5, <1>6, <1>7 DEF LockstepInv

\* A peer that opens sends a handshake and what it came for.
LEMMA PeerOpensKeeps ==
  ASSUME LockstepInv, PeerOpens
  PROVE  LockstepInv'
<1> DEFINE h == Packet("Handshake", "handshake", FALSE, FALSE, FALSE)
           d == Packet(IF conf.intent = "login" THEN "LoginStart" ELSE "StatusRequest",
                       conf.intent, FALSE, FALSE, FALSE)
<1>1. /\ peer = "new" /\ peer' = conf.intent /\ toServer' = <<h, d>>
      /\ UNCHANGED <<conf, phase, compression, cipher, verifyToken, forwarding, forwarded,
                     profile, finished, keepAlive, steps, open, serving, online, onRoster,
                     peerCompress, peerCipher, toPeer>>
  BY DEF PeerOpens, client, loop
<1>2. /\ phase = "handshake" /\ toPeer = <<>> /\ steps = <<>> /\ ~compression /\ ~cipher
      /\ ~verifyToken /\ forwarded = "nobody" /\ ~forwarding /\ ~peerCompress /\ ~peerCipher
  BY <1>1 DEF LockstepInv, NewInv
<1>3. conf.intent \in {"status", "login"}
  BY ConfigTypes DEF LockstepInv, TypeOK
<1>4. /\ h.type = "Handshake" /\ h.phase = "handshake" /\ h.compressed = FALSE
      /\ h.enciphered = FALSE /\ h \in Packets
  <2>1. "Handshake" \in PacketTypes /\ "handshake" \in Phases
    BY DEF PacketTypes, Phases
  <2>. QED BY <2>1 DEF Packet, Packets
<1>5. /\ d.type = (IF conf.intent = "login" THEN "LoginStart" ELSE "StatusRequest")
      /\ d.phase = conf.intent /\ d.compressed = FALSE
      /\ d.enciphered = FALSE /\ d \in Packets
  <2>1. /\ (IF conf.intent = "login" THEN "LoginStart" ELSE "StatusRequest") \in PacketTypes
        /\ conf.intent \in Phases
    BY <1>3 DEF PacketTypes, Phases
  <2>. QED BY <2>1 DEF Packet, Packets
<1> HIDE DEF h, d
<1>6. /\ toServer' \in Seq(Packets) /\ Len(toServer') = 2
      /\ toServer'[1] = h /\ toServer'[2] = d
  BY <1>1, <1>4, <1>5
<1>7. /\ compression = FALSE /\ cipher = FALSE
  BY <1>2, Types DEF LockstepInv
<1>8. PeerEnd' = conf.intent
  BY <1>1, <1>2, EmptyHolds DEF PeerEnd, EndOf
<1>9. StepsInv'
  BY <1>1, <1>2, NothingHeldOfProgram DEF StepsInv
<1>10. ToServerInv'
  <2> SUFFICES ASSUME NEW i \in 1..Len(toServer')
               PROVE  LET p == toServer'[i] IN
    /\ p.compressed = compression /\ p.enciphered = cipher
    /\ Belongs(p.type, p.phase)
    /\ p.type \in {"Handshake", "LoginStart", "StatusRequest"}
    /\ \/ p.phase = phase
       \/ i = 2 /\ toServer'[1].type = "Handshake" /\ p.phase = conf.intent
    /\ p.type = "Handshake" => i = 1 /\ Len(toServer') = 2 /\ toServer'[2].type \in Driving
    /\ p.type \in Driving => i = Len(toServer') /\ steps = <<>> /\ toPeer = <<>>
    /\ p.type \in Driving => (Alive' => PeerEnd' = AnsweredFrom(p))
    BY <1>1 DEF ToServerInv, Driving, EncryptionAnswers, Caught
  <2>1. i = 1 \/ i = 2
    BY <1>6
  <2>2. CASE i = 1
    <3>1. d.type \in Driving /\ "Handshake" \notin Driving
      BY <1>3, <1>5 DEF Driving
    <3>. QED BY <2>2, <3>1, <1>2, <1>4, <1>6, <1>7 DEF Belongs
  <2>3. CASE i = 2
    <3>1. Belongs(d.type, d.phase) /\ AnsweredFrom(d) = conf.intent /\ d.type # "Handshake"
      BY <1>3, <1>5 DEF Belongs, AnsweredFrom
    <3>. QED BY <2>3, <3>1, <1>2, <1>3, <1>4, <1>5, <1>6, <1>7, <1>8
  <2>. QED BY <2>1, <2>2, <2>3
<1>11. ToPeerInv' /\ PeerInv'
  <2>1. \A i \in 1..Len(toPeer') : FALSE
    BY <1>1, <1>2, EmptyRange
  <2>2. ToPeerInv'
    BY <2>1, Zenon DEF ToPeerInv
  <2>3. PeerInv'
    BY <2>1, Zenon DEF PeerInv
  <2>. QED BY <2>2, <2>3
<1>12. NextInv'
  <2>1. toServer' # <<>>
    BY <1>6
  <2>2. peerCompress = FALSE /\ peerCipher = FALSE
    BY <1>2, Types DEF LockstepInv
  <2>3. compression' = (peerCompress' \/ Holds(toPeer', "SetCompression"))
    BY <1>1, <1>2, <1>7, <2>2, EmptyHolds
  <2>. QED BY <1>1, <1>2, <1>7, <2>1, <2>2, <2>3 DEF NextInv
<1>13. NewInv'
  <2>1. peer' # "new"
    BY <1>1, <1>3
  <2>2. finished' => phase' \in {"configuration", "play"}
    BY <1>1 DEF LockstepInv, NewInv
  <2>. QED BY <1>1, <1>2, <1>4, <1>6, <2>1, <2>2 DEF NewInv
<1>14. TypeOK' /\ CountInv'
  BY <1>1, <1>3, <1>6 DEF LockstepInv, TypeOK, CountInv, Wire, Packets
<1>. QED BY <1>9, <1>10, <1>11, <1>12, <1>13, <1>14 DEF LockstepInv

\* A queue that one reply is added to.
LEMMA OneMore ==
  ASSUME NEW S, NEW w \in Seq(S), NEW x \in S, NEW f, f = [i \in 1..1 |-> x]
  PROVE  /\ w \o f \in Seq(S) /\ Len(w \o f) = Len(w) + 1
         /\ \A i \in 1..Len(w) : (w \o f)[i] = w[i]
         /\ (w \o f)[Len(w) + 1] = x
<1>1. f \in Seq(S) /\ Len(f) = 1 /\ f[1] = x
  OBVIOUS
<1>2. 1 \in 1..Len(f)
  BY <1>1
<1>. QED BY <1>1, <1>2, Places

\* What a packet is answered with.
LEMMA Answers ==
  ASSUME NEW p, NEW a \in Answer(p)
  PROVE  \/ /\ p.type = "EncryptionRequest" /\ a \in EncryptionAnswers
            /\ a = "SignedChallenge" => MaySignEncryptionChallenge(conf.version)
         \/ /\ p.type = "LoginPluginRequest"
            /\ a \in {"ForwardingSigned", "ForwardingUnsigned", "ForwardingUnknown"}
            /\ a = "ForwardingSigned" => conf.peer = "modern"
            /\ a = "ForwardingUnknown" => conf.peer \notin {"modern", "impostor"}
         \/ /\ p.type = "LoginSuccess" /\ HasConfigurationPhase(conf.version)
            /\ a = "LoginAcknowledged"
         \/ p.type = "FinishConfiguration" /\ a = "AcknowledgeFinish"
         \/ p.type = "KeepAlive" /\ a = "KeepAlive"
         \/ p.type = "StatusResponse" /\ a = "PingRequest"
         \/ p.type = "PlayerPosition" /\ a = "MovePlayer"
  BY DEF Answer, EncryptionAnswers

\* The peer reads what it can understand, answers it where it read it, and moves
\* on: the end it is to reach stays the same.
LEMMA PeerAnswersKeeps ==
  ASSUME LockstepInv, PeerAnswers
  PROVE  LockstepInv'
<1> DEFINE p == toPeer[1]
<1>1. /\ Alive /\ toPeer # <<>> /\ Head(toPeer) = p /\ toPeer \in Seq(Packets)
      /\ Len(toPeer) \in Nat /\ Len(toPeer) >= 1 /\ 1 \in 1..Len(toPeer) /\ p \in Packets
      /\ toPeer' = Tail(toPeer)
      /\ toPeer' \in Seq(Packets) /\ Len(toPeer') = Len(toPeer) - 1
      /\ \A i \in 1..Len(toPeer') : i + 1 \in 1..Len(toPeer) /\ toPeer'[i] = toPeer[i + 1]
  BY Types, Rest DEF LockstepInv, PeerAnswers
<1> HIDE DEF p
<1>2. /\ peerCompress' = (peerCompress \/ p.type = "SetCompression")
      /\ UNCHANGED <<conf, phase, compression, cipher, verifyToken, forwarding, forwarded,
                     profile, finished, keepAlive, steps, open, serving, online, onRoster>>
  BY <1>1 DEF PeerAnswers, client, loop, p
<1>3. \A i \in 1..Len(toServer) :
        /\ toServer[i].type \in {"KeepAlive", "MovePlayer"}
        /\ toServer[i].phase = phase /\ phase \in {"configuration", "play"}
  BY <1>1, QuietServer
<1>4. /\ Belongs(p.type, p.phase) /\ p.type \in Written \cup {"SetCompression", "KeepAlive"}
      /\ Asking(p.type, conf.version) => Len(toPeer) = 1 /\ steps = <<>> /\ p.phase = phase
      /\ p.type = "FinishConfiguration" => finished
      /\ p.type = "EncryptionRequest" => verifyToken
      /\ p.phase \in {"configuration", "play"} =>
           /\ p.phase = phase /\ p.compressed = compression /\ p.enciphered = cipher
  BY <1>1 DEF LockstepInv, ToPeerInv, p
<1>5. /\ p.compressed = peerCompress /\ p.enciphered = peerCipher /\ p.phase = peer
  <2>1. /\ p.compressed = (peerCompress \/ \E j \in 1..(1 - 1) : toPeer[j].type = "SetCompression")
        /\ p.enciphered = peerCipher
        /\ p.phase = IF \E j \in 1..(1 - 1) : toPeer[j].type = "LoginSuccess" THEN "play" ELSE peer
    BY <1>1 DEF LockstepInv, PeerInv, p
  <2>2. \A j \in 1..(1 - 1) : FALSE
    OBVIOUS
  <2>. QED BY <2>1, <2>2, Types DEF LockstepInv
<1>6. ToPeerInv'
  <2> SUFFICES ASSUME NEW i \in 1..Len(toPeer')
               PROVE  LET q == toPeer'[i] IN
      /\ Belongs(q.type, q.phase) /\ q.type \in Written \cup {"SetCompression", "KeepAlive"}
      /\ Asking(q.type, conf.version) => i = Len(toPeer') /\ steps = <<>> /\ q.phase = phase
      /\ q.type = "FinishConfiguration" => finished
      /\ q.type = "EncryptionRequest" => verifyToken
      /\ q.phase \in {"configuration", "play"} =>
           /\ q.phase = phase /\ q.compressed = compression /\ q.enciphered = cipher
    BY <1>2 DEF ToPeerInv
  <2>1. PICK j \in 1..Len(toPeer) :
          j = i + 1 /\ toPeer'[i] = toPeer[j] /\ (j = Len(toPeer) => i = Len(toPeer'))
    <3>1. i + 1 \in 1..Len(toPeer) /\ toPeer'[i] = toPeer[i + 1]
      BY <1>1
    <3>2. i + 1 = Len(toPeer) => i = Len(toPeer')
      <4>1. i \in Nat /\ Len(toPeer) \in Nat /\ Len(toPeer') = Len(toPeer) - 1
        BY <1>1
      <4>. QED BY <4>1
    <3>. QED BY <3>1, <3>2
  <2>2. LET q == toPeer[j] IN
      /\ Belongs(q.type, q.phase) /\ q.type \in Written \cup {"SetCompression", "KeepAlive"}
      /\ Asking(q.type, conf.version) => j = Len(toPeer) /\ steps = <<>> /\ q.phase = phase
      /\ q.type = "FinishConfiguration" => finished
      /\ q.type = "EncryptionRequest" => verifyToken
      /\ q.phase \in {"configuration", "play"} =>
           /\ q.phase = phase /\ q.compressed = compression /\ q.enciphered = cipher
    BY <2>1 DEF LockstepInv, ToPeerInv
  <2>. QED BY <2>1, <2>2
<1>7. NewInv'
  <2>1. phase # "handshake"
    BY <1>1 DEF LockstepInv, NewInv
  <2>2. peer' # "new"
    BY <1>1 DEF PeerAnswers, Alive
  <2>. QED BY <2>1, <2>2, <1>2 DEF LockstepInv, NewInv
<1>8. CountInv'
  BY <1>2 DEF LockstepInv, CountInv
<1>9. CASE ~Alive'
  <2>1. /\ toServer' = toServer /\ peer' = "closed" /\ peerCipher' = peerCipher
    <3>1. ASSUME peer' \in {peer, "configuration", "play"} PROVE FALSE
      BY <3>1, <1>1, <1>9 DEF Alive
    <3>. QED BY <3>1 DEF PeerAnswers
  <2>2. StepsInv'
    <3>1. ASSUME NEW i \in 1..Len(steps), Kind(steps, i) = "phase"
          PROVE  phase # "configuration"
      BY <3>1, <1>1 DEF LockstepInv, StepsInv
    <3>. QED BY <2>1, <3>1, <1>2, <1>9 DEF LockstepInv, StepsInv, Caught
  <2>3. ToServerInv'
    BY <2>1, <1>2, <1>3 DEF LockstepInv, ToServerInv, Driving, EncryptionAnswers
  <2>4. PeerInv' /\ NextInv'
    BY <1>9 DEF PeerInv, NextInv
  <2>5. TypeOK'
    <3>1. peerCompress' \in BOOLEAN
      BY <1>2
    <3>. QED BY <2>1, <3>1, <1>1, <1>2 DEF LockstepInv, TypeOK, Wire, Packets
  <2>. QED BY <2>2, <2>3, <2>4, <2>5, <1>6, <1>7, <1>8 DEF LockstepInv
<1>10. CASE Alive'
  <2>1. /\ peerCipher' = (peerCipher \/ p.type = "EncryptionRequest")
        /\ peer' = CASE p.type = "LoginSuccess" ->
                          IF HasConfigurationPhase(conf.version) THEN "configuration" ELSE "play"
                     [] p.type = "FinishConfiguration" -> "play"
                     [] OTHER -> peer
        /\ IF Answer(p) = {} THEN UNCHANGED toServer
           ELSE \E a \in Answer(p) : Reply(<<a>>, peer, peerCipher)
    <3>1. peer' # "closed"
      BY <1>10 DEF Alive
    <3>. QED BY <3>1, <1>1 DEF PeerAnswers
  <2>2. \A t : Holds(toPeer, t) <=> p.type = t \/ Holds(toPeer', t)
    BY <1>1, RestHolds DEF p
  <2>3. Asking(p.type, conf.version) => toPeer' = <<>> /\ \A t : ~Holds(toPeer', t)
    <3>1. Asking(p.type, conf.version) => Len(toPeer') = 0
      BY <1>1, <1>4
    <3>. QED BY <3>1, <1>1, EmptySeq, EmptyHolds
  <2>4. PeerEnd' = PeerEnd
    <3>1. PeerEnd' = EndOf(toPeer', peer', conf.version)
      BY <1>2 DEF PeerEnd
    <3>2. CASE p.type = "LoginSuccess" /\ HasConfigurationPhase(conf.version)
      BY <3>1, <3>2, <2>1, <2>2, <2>3 DEF PeerEnd, EndOf, Asking
    <3>3. CASE p.type = "LoginSuccess" /\ ~HasConfigurationPhase(conf.version)
      BY <3>1, <3>3, <2>1, <2>2 DEF PeerEnd, EndOf
    <3>4. CASE p.type = "FinishConfiguration"
      BY <3>1, <3>4, <2>1, <2>2, <2>3 DEF PeerEnd, EndOf, Asking
    <3>5. CASE p.type \notin {"LoginSuccess", "FinishConfiguration"}
      BY <3>1, <3>5, <2>1, <2>2 DEF PeerEnd, EndOf
    <3>. QED BY <3>2, <3>3, <3>4, <3>5
  <2>5. cipher = peerCipher /\ compression = (peerCompress \/ Holds(toPeer, "SetCompression"))
    <3>1. \A i \in 1..Len(toServer) : toServer[i].type \notin EncryptionAnswers
      BY <1>3 DEF EncryptionAnswers
    <3>. QED BY <3>1, <1>1 DEF LockstepInv, NextInv
  <2>6. PeerInv'
    <3> SUFFICES ASSUME NEW i \in 1..Len(toPeer')
                 PROVE  LET q == toPeer'[i] IN
      /\ q.compressed = (peerCompress' \/ \E j \in 1..(i - 1) : toPeer'[j].type = "SetCompression")
      /\ q.enciphered = peerCipher'
      /\ q.phase = IF \E j \in 1..(i - 1) : toPeer'[j].type = "LoginSuccess" THEN "play" ELSE peer'
      BY DEF PeerInv
    <3>1. PICK k \in 1..Len(toPeer) : k = i + 1 /\ toPeer'[i] = toPeer[k] /\ k > 1
      BY <1>1
    <3>2. ~Asking(p.type, conf.version)
      BY <3>1, <1>4
    <3>3. ASSUME NEW x
          PROVE  (\E j \in 1..(k - 1) : toPeer[j].type = x)
                   <=> p.type = x \/ \E j \in 1..(i - 1) : toPeer'[j].type = x
      <4>1. ASSUME NEW j \in 1..(k - 1), toPeer[j].type = x, p.type # x
            PROVE  \E j1 \in 1..(i - 1) : toPeer'[j1].type = x
        <5>1. j # 1
          BY <4>1 DEF p
        <5>2. j - 1 \in 1..(i - 1) /\ j - 1 \in 1..Len(toPeer') /\ (j - 1) + 1 = j
          BY <5>1, <3>1, <1>1
        <5>3. toPeer'[j - 1] = toPeer[j]
          BY <5>2, <1>1
        <5>. QED BY <5>2, <5>3, <4>1
      <4>2. ASSUME NEW j \in 1..(i - 1), toPeer'[j].type = x
            PROVE  \E j1 \in 1..(k - 1) : toPeer[j1].type = x
        <5>1. j \in 1..Len(toPeer') /\ j + 1 \in 1..(k - 1)
          BY <3>1, <1>1
        <5>. QED BY <5>1, <4>2, <1>1
      <4>3. ASSUME p.type = x
            PROVE  \E j1 \in 1..(k - 1) : toPeer[j1].type = x
        <5>1. 1 \in 1..(k - 1)
          BY <3>1
        <5>. QED BY <5>1, <4>3 DEF p
      <4>. QED BY <4>1, <4>2, <4>3
    <3>4. LET q == toPeer[k] IN
      /\ q.compressed = (peerCompress \/ \E j \in 1..(k - 1) : toPeer[j].type = "SetCompression")
      /\ q.enciphered = peerCipher
      /\ q.phase = IF \E j \in 1..(k - 1) : toPeer[j].type = "LoginSuccess" THEN "play" ELSE peer
      BY <1>1 DEF LockstepInv, PeerInv
    <3>5. toPeer'[i].compressed =
            (peerCompress' \/ \E j \in 1..(i - 1) : toPeer'[j].type = "SetCompression")
      <4> DEFINE before == \E j \in 1..(k - 1) : toPeer[j].type = "SetCompression"
                 after == \E j \in 1..(i - 1) : toPeer'[j].type = "SetCompression"
                 announced == p.type = "SetCompression"
      <4>1. before <=> announced \/ after
        BY <3>3
      <4>2. toPeer'[i].compressed = (peerCompress \/ before)
        BY <3>1, <3>4
      <4>3. peerCompress' = (peerCompress \/ announced)
        BY <1>2
      <4> HIDE DEF before, after, announced
      <4>4. toPeer'[i].compressed = (peerCompress' \/ after)
        BY <4>1, <4>2, <4>3
      <4>. QED BY <4>4 DEF after
    <3>6. toPeer'[i].enciphered = peerCipher'
      <4>1. p.type # "EncryptionRequest"
        BY <3>2 DEF Asking
      <4>2. peerCipher' = peerCipher
        BY <4>1, <2>1, Types DEF LockstepInv
      <4>. QED BY <4>2, <3>1, <3>4
    <3>7. toPeer'[i].phase =
            IF \E j \in 1..(i - 1) : toPeer'[j].type = "LoginSuccess" THEN "play" ELSE peer'
      <4>1. CASE p.type = "LoginSuccess"
        <5>1. ~HasConfigurationPhase(conf.version)
          BY <4>1, <3>2 DEF Asking
        <5>2. peer' = "play"
          BY <4>1, <5>1, <2>1
        <5>3. toPeer[k].phase = "play"
          BY <4>1, <3>3, <3>4
        <5>. QED BY <5>2, <5>3, <3>1
      <4>2. CASE p.type # "LoginSuccess"
        <5>1. p.type # "FinishConfiguration"
          BY <3>2 DEF Asking
        <5>2. peer' = peer
          BY <4>2, <5>1, <2>1
        <5>. QED BY <4>2, <5>2, <3>1, <3>3, <3>4
      <4>. QED BY <4>1, <4>2
    <3>. QED BY <3>5, <3>6, <3>7
  <2>7. /\ peerCompress' \in BOOLEAN /\ peerCipher' \in BOOLEAN
        /\ compression = (peerCompress' \/ Holds(toPeer', "SetCompression"))
    BY <1>2, <2>1, <2>2, <2>5
  <2>8. peer' \in {peer, "configuration", "play"}
    BY <2>1
  <2>9. phase # "handshake"
    BY <1>1 DEF LockstepInv, NewInv
  <2>10. \/ phase' = PeerEnd'
         \/ /\ phase' = "login" /\ PeerEnd' \in {"configuration", "play"}
            /\ steps' = <<>> \/ Kind(steps', 1) = "phase"
         \/ phase' = "configuration" /\ finished' /\ PeerEnd' = "play"
    BY <1>1, <1>2, <2>4, <2>9 DEF LockstepInv, NextInv
  <2>11. CASE Answer(p) = {}
    <3>1. toServer' = toServer
      BY <2>1, <2>11
    <3>2. p.type # "EncryptionRequest"
      BY <2>11 DEF Answer
    <3>3. peerCipher' = peerCipher
      BY <3>2, <2>1, Types DEF LockstepInv
    <3>4. StepsInv'
      <4>1. ASSUME NEW i \in 1..Len(steps), Kind(steps, i) = "phase"
            PROVE  phase # "configuration"
        BY <4>1, <1>1 DEF LockstepInv, StepsInv
      <4>. QED BY <3>1, <4>1, <1>1, <1>2, <2>4 DEF LockstepInv, StepsInv, Caught
    <3>5. ToServerInv'
      BY <3>1, <1>2, <1>3 DEF LockstepInv, ToServerInv, Driving, EncryptionAnswers
    <3>6. NextInv'
      BY <3>3, <1>2, <2>5, <2>7, <2>10 DEF NextInv
    <3>7. TypeOK'
      BY <3>1, <1>1, <1>2, <2>7, <2>8 DEF LockstepInv, TypeOK, Wire, Packets
    <3>. QED BY <3>4, <3>5, <3>6, <3>7, <2>6, <1>6, <1>7, <1>8 DEF LockstepInv
  <2>12. CASE Answer(p) # {}
    <3>1. PICK a \in Answer(p) : Reply(<<a>>, peer, peerCipher)
      BY <2>1, <2>12
    <3>2. \/ /\ p.type = "EncryptionRequest" /\ a \in EncryptionAnswers
             /\ a = "SignedChallenge" => MaySignEncryptionChallenge(conf.version)
          \/ /\ p.type = "LoginPluginRequest"
             /\ a \in {"ForwardingSigned", "ForwardingUnsigned", "ForwardingUnknown"}
          \/ /\ p.type = "LoginSuccess" /\ HasConfigurationPhase(conf.version)
             /\ a = "LoginAcknowledged"
          \/ p.type = "FinishConfiguration" /\ a = "AcknowledgeFinish"
          \/ p.type = "KeepAlive" /\ a = "KeepAlive"
          \/ p.type = "StatusResponse" /\ a = "PingRequest"
          \/ p.type = "PlayerPosition" /\ a = "MovePlayer"
      BY Answers
    <3> DEFINE r == Packet(a, peer, peerCompress', peerCipher, FALSE)
    <3>3. /\ r.type = a /\ r.phase = peer /\ r.compressed = peerCompress'
          /\ r.enciphered = peerCipher /\ r \in Packets
      <4>1. a \in PacketTypes
        BY <3>2 DEF PacketTypes, EncryptionAnswers
      <4>2. peer \in Phases /\ peerCipher \in BOOLEAN
        BY <1>1, <1>5, Types DEF Packets, LockstepInv
      <4>. QED BY <4>1, <4>2, <2>7 DEF Packet, Packets
    <3>4. toServer' = toServer \o [i \in 1..1 |-> r]
      <4> DEFINE f == [i \in 1..Len(<<a>>) |->
                         Packet(<<a>>[i], peer, peerCompress', peerCipher, FALSE)]
      <4>1. toServer' = toServer \o f
        BY <3>1 DEF Reply
      <4>2. f = [i \in 1..1 |-> r]
        <5>1. Len(<<a>>) = 1 /\ \A i \in 1..1 : <<a>>[i] = a
          OBVIOUS
        <5>. QED BY <5>1 DEF Packet
      <4>. QED BY <4>1, <4>2
    <3> HIDE DEF r
    <3>5. /\ Len(toServer) \in Nat /\ toServer' \in Seq(Packets)
          /\ Len(toServer') = Len(toServer) + 1
          /\ \A i \in 1..Len(toServer) : toServer'[i] = toServer[i]
          /\ toServer'[Len(toServer) + 1] = r
      <4>1. toServer \in Seq(Packets) /\ Len(toServer) \in Nat
        BY Types DEF LockstepInv
      <4>. QED BY <4>1, <3>3, <3>4, OneMore
    <3>6. TypeOK'
      BY <3>5, <1>1, <1>2, <2>7, <2>8 DEF LockstepInv, TypeOK, Wire, Packets
    <3>7. ASSUME NEW i \in 1..Len(toServer)
          PROVE  LET q == toServer[i] IN
            /\ q.compressed = compression /\ q.enciphered = cipher
            /\ Belongs(q.type, q.phase) /\ q.type \in {"KeepAlive", "MovePlayer"}
            /\ q.phase = phase
      BY <1>3 DEF LockstepInv, ToServerInv
    <3>8. CASE p.type \in {"KeepAlive", "PlayerPosition"}
      <4>1. phase \in {"configuration", "play"} /\ p.phase = phase /\ Belongs(a, phase)
            /\ a \in {"KeepAlive", "MovePlayer"}
        BY <3>2, <3>8, <1>4 DEF Belongs
      <4>2. peerCompress' = peerCompress /\ peerCipher' = peerCipher
        BY <3>8, <1>2, <2>1, Types DEF LockstepInv
      <4>3. /\ r.compressed = compression /\ r.enciphered = cipher /\ r.phase = phase
        BY <3>3, <4>1, <4>2, <1>4, <1>5
      <4>4. ToServerInv'
        <5> SUFFICES ASSUME NEW i \in 1..Len(toServer')
                     PROVE  LET q == toServer'[i] IN
            /\ q.compressed = compression /\ q.enciphered = cipher
            /\ Belongs(q.type, q.phase) /\ q.type \in {"KeepAlive", "MovePlayer"}
            /\ q.phase = phase
          BY <1>2 DEF ToServerInv, Driving, EncryptionAnswers
        <5>1. CASE i \in 1..Len(toServer)
          BY <5>1, <3>5, <3>7
        <5>2. CASE i = Len(toServer) + 1
          BY <5>2, <3>3, <3>5, <4>1, <4>3
        <5>. QED BY <5>1, <5>2, <3>5
      <4>5. StepsInv'
        <5>1. \A i \in 1..Len(steps) : Kind(steps, i) # "phase"
          BY <4>1, <1>1 DEF LockstepInv, StepsInv
        <5>. QED BY <5>1, <1>2 DEF LockstepInv, StepsInv
      <4>6. NextInv'
        BY <4>2, <1>2, <2>5, <2>7, <2>10 DEF NextInv
      <4>. QED BY <4>4, <4>5, <4>6, <3>6, <2>6, <1>6, <1>7, <1>8 DEF LockstepInv
    <3>9. CASE p.type \notin {"KeepAlive", "PlayerPosition"}
      <4>1. Asking(p.type, conf.version)
        BY <3>2, <3>9 DEF Asking
      <4>2. /\ Len(toPeer) = 1 /\ steps = <<>> /\ p.phase = phase /\ toPeer' = <<>>
            /\ steps' = <<>>
        BY <4>1, <1>2, <1>4, <2>3
      <4>3. PeerEnd' = peer'
        BY <4>1, <1>2, <2>3 DEF PeerEnd, EndOf
      <4>4. /\ a \in Driving /\ Belongs(a, phase)
            /\ peer' = AnsweredFrom(r)
        <5>1. Belongs(p.type, phase) /\ r.phase = phase /\ r.type = a /\ peer = phase
          BY <4>2, <3>3, <1>4, <1>5
        <5>2. a \in Driving /\ Belongs(a, phase)
          BY <5>1, <3>2, <3>9 DEF Belongs, Driving, EncryptionAnswers
        <5>3. peer' = AnsweredFrom(r)
          BY <5>1, <3>2, <3>9, <2>1 DEF AnsweredFrom, EncryptionAnswers
        <5>. QED BY <5>2, <5>3
      <4>5. peerCompress' = compression
        <5>1. p.type # "SetCompression"
          BY <4>1 DEF Asking
        <5>2. ~Holds(toPeer', "SetCompression")
          BY <4>1, <2>3
        <5>. QED BY <5>1, <5>2, <2>7
      <4>6. /\ a = "AcknowledgeFinish" => finished
            /\ a = "LoginAcknowledged" => HasConfigurationPhase(conf.version)
            /\ a \in EncryptionAnswers => verifyToken /\ peerCipher' = TRUE
            /\ a = "SignedChallenge" => MaySignEncryptionChallenge(conf.version)
        BY <3>2, <1>4, <2>1 DEF EncryptionAnswers
      <4>7. ToServerInv'
        <5> SUFFICES ASSUME NEW i \in 1..Len(toServer')
                     PROVE  LET q == toServer'[i] IN
            /\ q.compressed = compression /\ q.enciphered = cipher
            /\ Belongs(q.type, q.phase)
            /\ q.type \in Driving \cup {"KeepAlive", "MovePlayer"}
            /\ q.phase = phase
            /\ q.type # "Handshake"
            /\ q.type \in Driving => i = Len(toServer')
            /\ q.type \in Driving => PeerEnd' = AnsweredFrom(q)
            /\ q.type = "AcknowledgeFinish" => finished
            /\ q.type = "LoginAcknowledged" => HasConfigurationPhase(conf.version)
            /\ q.type \in EncryptionAnswers => verifyToken /\ peerCipher' = TRUE
            /\ q.type = "SignedChallenge" => MaySignEncryptionChallenge(conf.version)
          BY <1>2, <4>2 DEF ToServerInv, Caught
        <5>1. CASE i \in 1..Len(toServer)
          <6>1. \A t \in {"KeepAlive", "MovePlayer"} :
                  t \notin Driving /\ t \notin EncryptionAnswers
            BY DEF Driving, EncryptionAnswers
          <6>2. toServer'[i] = toServer[i]
            BY <5>1, <3>5
          <6>. QED BY <5>1, <6>1, <6>2, <3>7
        <5>2. CASE i = Len(toServer) + 1
          <6>1. r.compressed = compression /\ r.enciphered = cipher /\ r.phase = phase
            BY <3>3, <4>2, <4>5, <2>5, <1>5
          <6>2. a # "Handshake"
            BY <4>4 DEF Driving
          <6>3. toServer'[i] = r /\ i = Len(toServer')
            BY <5>2, <3>5
          <6>. QED BY <6>1, <6>2, <6>3, <3>3, <4>3, <4>4, <4>6
        <5>3. i \in 1..Len(toServer) \/ i = Len(toServer) + 1
          BY <3>5
        <5>. QED BY <5>1, <5>2, <5>3
      <4>8. StepsInv'
        BY <4>2, NothingHeldOfProgram DEF StepsInv
      <4>9. NextInv'
        <5>1. \/ cipher = peerCipher'
              \/ \E i \in 1..Len(toServer') : toServer'[i].type \in EncryptionAnswers
          <6>1. CASE p.type = "EncryptionRequest"
            <7>1. a \in EncryptionAnswers /\ Len(toServer) + 1 \in 1..Len(toServer')
              BY <6>1, <3>2, <3>5
            <7>. QED BY <7>1, <3>3, <3>5
          <6>2. CASE p.type # "EncryptionRequest"
            BY <6>2, <2>1, <2>5, Types DEF LockstepInv
          <6>. QED BY <6>1, <6>2
        <5>. QED BY <5>1, <1>2, <2>7, <2>10 DEF NextInv
      <4>. QED BY <4>7, <4>8, <4>9, <3>6, <2>6, <1>6, <1>7, <1>8 DEF LockstepInv
    <3>. QED BY <3>8, <3>9
  <2>. QED BY <2>11, <2>12
<1>. QED BY <1>9, <1>10

\* A connection begins in step.
LEMMA InitLockstep ==
  ASSUME Init
  PROVE  LockstepInv
<1>1. /\ steps = <<>> /\ toServer = <<>> /\ toPeer = <<>>
      /\ \A i \in 1..Len(steps) : FALSE
      /\ \A i \in 1..Len(toServer) : FALSE
      /\ \A i \in 1..Len(toPeer) : FALSE
  BY EmptyRange DEF Init
<1>2. TypeOK
  <2>1. <<>> \in Seq(StepSet) /\ <<>> \in Wire
    BY DEF Wire
  <2>. QED BY <2>1 DEF Init, TypeOK, Phases, Sources
<1>3. CountInv /\ NewInv
  BY <1>1 DEF Init, CountInv, NewInv
<1>4. StepsInv
  BY <1>1, NothingHeldOfProgram DEF StepsInv
<1>5. ToServerInv /\ ToPeerInv /\ PeerInv
  BY <1>1, Zenon DEF ToServerInv, ToPeerInv, PeerInv
<1>6. NextInv
  BY DEF Init, NextInv, Alive
<1>. QED BY <1>2, <1>3, <1>4, <1>5, <1>6 DEF LockstepInv

\* Whatever happens, both ends stay in step.
LEMMA NextLockstep ==
  ASSUME LockstepInv, [Next]_vars
  PROVE  LockstepInv'
<1>1. CASE Step
  BY <1>1, StepWriteKeeps, StepCompressKeeps, StepPhaseKeeps, StepProfileKeeps,
     StepEncryptKeeps, StepAuthenticateKeeps, StepJoinKeeps DEF Step
<1>2. CASE Handle
  BY <1>2, HandleHandshakeKeeps, HandleLoginStartKeeps, ForwardingHandled,
     HandleEncryptionResponseKeeps, HandleLoginAcknowledgedKeeps, HandleAcknowledgeFinishKeeps,
     HandleKeepAliveKeeps, HandlePingKeeps, HandleNothingKeeps DEF Handle
<1>3. CASE UNCHANGED vars
  <2>1. UNCHANGED <<conf, phase, compression, cipher, verifyToken, forwarding, forwarded,
                    profile, finished, keepAlive, steps, open, serving, online, onRoster,
                    peer, peerCompress, peerCipher, toServer, toPeer>>
    BY <1>3 DEF vars, client, loop, remote, wires
  <2>2. TypeOK' /\ CountInv' /\ NewInv'
    BY <2>1 DEF LockstepInv, TypeOK, CountInv, NewInv
  <2>3. PeerEnd' = PeerEnd /\ Alive' = Alive
    BY <2>1 DEF PeerEnd, Alive
  <2>4. StepsInv' /\ ToServerInv' /\ ToPeerInv'
    BY <2>1, <2>3 DEF LockstepInv, StepsInv, ToServerInv, ToPeerInv, Caught
  <2>5. PeerInv' /\ NextInv'
    BY <2>1, <2>3 DEF LockstepInv, PeerInv, NextInv
  <2>. QED BY <2>2, <2>4, <2>5 DEF LockstepInv
<1>. QED BY <1>1, <1>2, <1>3, EndOfRunKeeps, SweepKeeps, PeerOpensKeeps, PeerAnswersKeeps,
        PeerStopsKeeps DEF Next

\* And so they always are.
LEMMA AlwaysLockstep == Spec => []LockstepInv
<1>1. Init => LockstepInv
  BY InitLockstep
<1>2. LockstepInv /\ [Next]_vars => LockstepInv'
  BY NextLockstep
<1>. QED BY <1>1, <1>2, PTL DEF Spec

-------------------------------------------------------------------------------
(* What follows from it.                                                      *)

\* Every variable keeps its type; what waits in either direction is a packet,
\* and what is left of a handler is a step that handlers have.
THEOREM TypeCorrect == Spec => []TypeOK
<1>1. LockstepInv => TypeOK
  BY DEF LockstepInv
<1>. QED BY <1>1, AlwaysLockstep, PTL

\* A connection that ended, in whatever phase and in the middle of whatever
\* handler, is counted out, and once: LeavePlay goes by the phase under its lock,
\* before it has left the roster; and nobody served is on the roster uncounted.
THEOREM EndsUncountedAlways == Spec => []EndsUncounted
<1>1. LockstepInv => EndsUncounted
  BY DEF LockstepInv, CountInv, EndsUncounted
<1>. QED BY <1>1, AlwaysLockstep, PTL

\* Neither end reads a packet under another phase's ids, in another framing or
\* under another cipher than it was written in.
THEOREM BothUnderstandAlways == Spec => []BothUnderstand
<1>1. LockstepInv => BothUnderstand
  <2> SUFFICES ASSUME LockstepInv
               PROVE  BothUnderstand
    OBVIOUS
  <2>1. PeerUnderstands
    <3> SUFFICES ASSUME Alive, toPeer # <<>>
                 PROVE  PeerReads(Head(toPeer))
      BY DEF PeerUnderstands
    <3>1. 1 \in 1..Len(toPeer) /\ Head(toPeer) = toPeer[1]
      BY Types DEF LockstepInv
    <3>2. \A j \in 1..(1 - 1) : FALSE
      OBVIOUS
    <3>3. LET p == toPeer[1] IN
            /\ p.compressed = (peerCompress \/ FALSE)
            /\ p.enciphered = peerCipher /\ p.phase = peer
      BY <3>1, <3>2 DEF LockstepInv, PeerInv
    <3>4. peerCompress \in BOOLEAN
      BY Types DEF LockstepInv
    <3>. QED BY <3>1, <3>3, <3>4 DEF PeerReads
  <2>2. ServerUnderstands
    <3> SUFFICES ASSUME toServer # <<>>
                 PROVE  ServerReads(Head(toServer))
      BY DEF ServerUnderstands
    <3>1. 1 \in 1..Len(toServer) /\ Head(toServer) = toServer[1]
      BY Types DEF LockstepInv
    <3>2. LET p == toServer[1] IN
            p.compressed = compression /\ p.enciphered = cipher /\ p.phase = phase
      BY <3>1 DEF LockstepInv, ToServerInv
    <3>. QED BY <3>1, <3>2 DEF ServerReads
  <2>. QED BY <2>1, <2>2 DEF BothUnderstand
<1>. QED BY <1>1, AlwaysLockstep, PTL
===============================================================================
