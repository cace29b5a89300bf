-------------------------------- MODULE Frames --------------------------------
(* What the bytes of a connection say: the framing of src/streams/frame.go    *)
(* and compression.go, as writePacket, writePrepared and EnableCompression    *)
(* of src/client/client.go write it, and as ReadPacket and, once the reactor  *)
(* has the connection, processPending of src/server/reactor.go find packets   *)
(* in what arrives. The client at the other end keeps the same protocol.      *)
(*                                                                            *)
(* A body is a string of bytes, its first the packet's id. The widths, sizes  *)
(* and thresholds are parameters: a var int of one byte holds a length up to  *)
(* Continue - 1, and one of two up to what the bounds here reach.             *)
EXTENDS VarInt, SequencesExt

CONSTANTS
  Bodies,               \* the bodies of packets in play
  Spoken,               \* those the client may say
  Thresholds,           \* those the server may be told to compress at
  MaxPacketSize,        \* the most a body may be
  maxPrePlayPacketSize, \* and the most it may be before play
  MaxWrites,            \* bound: packets the server writes in play
  MaxSays,              \* bound: frames the client writes
  ReadSize              \* bound: bytes one read of the reactor brings

ASSUME BodiesAssumption ==
  /\ \A body \in Bodies : body \in Seq(ByteValues) /\ body # <<>>
  /\ Spoken \subseteq Bodies
ASSUME ThresholdsAssumption == Thresholds \subseteq Nat

\* No threshold.
Off == -1

VARIABLES
  phase,       \* c.phase: "login", "configuration" or "play"
  threshold,   \* the server's compressionThreshold, Off until it is enabled
  toClient,    \* bytes on their way to the client
  toServer,    \* bytes on their way to the server
  pending,     \* reactorConn.pending
  taken,       \* the reactor serves the connection
  dropped,     \* the server has given the connection up
  wrote,       \* the bodies the server wrote, in order
  heard,       \* the bodies it read
  settled,     \* the client has read that its login succeeded
  told,        \* the threshold the client has read
  got,         \* the bodies the client read
  said         \* what the client wrote: each body, and how it framed it

serverState == <<phase, threshold, toClient, taken, wrote>>
clientState == <<settled, told, got, said>>
vars == <<serverState, clientState, toServer, pending, dropped, heard>>

From(s, n) == SubSeq(s, n + 1, Len(s))

-------------------------------------------------------------------------------
(* compression.go. Deflated, a body stands between the header of its format   *)
(* and the checksum behind it.                                                *)
Header == 2
Checksum == 3

Compress(body) == <<Header>> \o body \o <<Checksum>>

\* What a call returns that may fail.
Failed == [ok |-> FALSE, body |-> <<>>]
Made(body) == [ok |-> TRUE, body |-> body]

(* Decompress refuses a size below zero, a missing header, and a body that    *)
(* inflates to more or less than size or that ends without its checksum.      *)
Decompress(data, size) ==
  IF size >= 0 /\ Len(data) = size + 2 /\ data = Compress(SubSeq(data, 2, size + 1))
  THEN Made(SubSeq(data, 2, size + 1))
  ELSE Failed

-------------------------------------------------------------------------------
(* frame.go.                                                                  *)

\* WriteFrame.
Frame(body) == AppendVarInt(<<>>, Len(body)) \o body

\* WriteCompressedFrame.
CompressedFrame(size, payload) ==
  LET sizeBytes == AppendVarInt(<<>>, size)
  IN  AppendVarInt(<<>>, Len(sizeBytes) + Len(payload)) \o sizeBytes \o payload

CompressBody(body, t) ==
  IF Len(body) >= t THEN AppendVarInt(<<>>, Len(body)) \o Compress(body)
                    ELSE AppendVarInt(<<>>, 0) \o body

\* Mutant: a body of just the threshold's size is taken for one below it.
DecompressBodyAbove(body, t, max) ==
  LET size == readVarInt(body)
      payload == From(body, size.size)
  IN  IF size.err # "none" THEN Failed
      ELSE IF size.value = 0 THEN Made(payload)
      ELSE IF size.value <= t \/ size.value > max THEN Failed
      ELSE Decompress(payload, size.value)

DecompressBody(body, t, max) ==
  LET size == readVarInt(body)
      payload == From(body, size.size)
  IN  IF size.err # "none" THEN Failed
      ELSE IF size.value = 0 THEN Made(payload)
      ELSE IF size.value < t \/ size.value > max THEN Failed
      ELSE Decompress(payload, size.value)

(* The frame in front of a string of bytes: "partial" while it is still       *)
(* arriving, "invalid" when there is no length to find it by, and otherwise   *)
(* the bytes it takes and the body in it. ReadFrameInto waits on a partial.   *)
FrameIn(bytes, max) ==
  LET length == readVarInt(bytes)
      frame == From(bytes, length.size)
  IN  IF length.err = "EOF" THEN [is |-> "partial"]
      ELSE IF length.err # "none" \/ length.value < 1 \/ length.value > max
      THEN [is |-> "invalid"]
      ELSE IF Len(frame) < length.value THEN [is |-> "partial"]
      ELSE [is |-> "whole", size |-> length.size + length.value,
            body |-> SubSeq(frame, 1, length.value)]

-------------------------------------------------------------------------------
(* The packets that bear on the framing, and what can be in a frame.          *)
SetCompression(t) == <<0>> \o AppendVarInt(<<>>, t)
LoginSuccess == <<1>>
Hello == <<1>>

(* The ways a client frames a body. "fit" is the protocol's; the others are   *)
(* what the tests of the streams and of the client send: a body deflated that *)
(* is too short for it, one that claims another size, and no body at all.     *)
Forms == {"fit", "short", "misstated", "empty"}

InForm(body, form) ==
  CASE form = "empty" -> Frame(<<>>)
    [] form = "fit" /\ told = Off -> Frame(body)
    [] form = "fit" /\ told # Off -> Frame(CompressBody(body, told))
    [] form = "short" -> CompressedFrame(Len(body), Compress(body))
    [] form = "misstated" -> CompressedFrame(Len(body) + 1, Compress(body))

CanBeIn(body, form) ==
  CASE form = "short" -> told # Off /\ Len(body) < told
    [] form = "misstated" -> told # Off /\ Len(body) >= told
    [] OTHER -> TRUE

\* However it is framed, the body does not outgrow max.
KeepsTo(body, max) ==
  \A size \in {0, Len(body), Len(body) + 1} :
    Len(AppendVarInt(<<>>, size)) + Len(Compress(body)) <= max

(* A length is an int32 and no more than a packet may be in its phase. The    *)
(* server writes bodies of any length in play; what the client says may be    *)
(* read before.                                                               *)
ASSUME SizesAssumption ==
  /\ {MaxPacketSize, maxPrePlayPacketSize} \subseteq Nat
  /\ maxPrePlayPacketSize <= MaxPacketSize /\ MaxPacketSize \in Int32
ASSUME FitsAssumption ==
  /\ \A body \in Bodies : KeepsTo(body, MaxPacketSize)
  /\ \A body \in Spoken \cup {Hello} : KeepsTo(body, maxPrePlayPacketSize)
ASSUME AnnouncedAssumption ==
  \A t \in Thresholds : t \in Int32 /\ Len(SetCompression(t)) <= MaxPacketSize

Init ==
  /\ phase = "login" /\ threshold = Off /\ told = Off
  /\ toClient = <<>> /\ toServer = <<>> /\ pending = <<>>
  /\ taken = FALSE /\ dropped = FALSE /\ settled = FALSE
  /\ wrote = <<>> /\ heard = <<>> /\ got = <<>> /\ said = <<>>

-------------------------------------------------------------------------------
(* The server writes. c.mu is held across each of these.                      *)

Framed(body, t) == IF t = Off THEN Frame(body) ELSE Frame(CompressBody(body, t))

\* writePacket, past the encoding.
writePacket(body, t) ==
  /\ toClient' = toClient \o Framed(body, t)
  /\ wrote' = Append(wrote, body)

\* Mutant: compression is on before the packet that announces it is framed.
EnableCompressionEarly(t) ==
  /\ phase = "login" /\ heard # <<>> /\ ~dropped
  /\ threshold = Off
  /\ writePacket(SetCompression(t), t)
  /\ threshold' = t
  /\ UNCHANGED <<phase, taken, clientState, toServer, pending, dropped, heard>>

(* EnableCompression, by the handlers of a login that is settled. A second    *)
(* one is refused.                                                            *)
EnableCompression(t) ==
  /\ phase = "login" /\ heard # <<>> /\ ~dropped
  /\ threshold = Off
  /\ writePacket(SetCompression(t), threshold)
  /\ threshold' = t
  /\ UNCHANGED <<phase, taken, clientState, toServer, pending, dropped, heard>>

(* The login success that follows, and with the client's next packets the     *)
(* phases behind it.                                                          *)
FinishLogin ==
  /\ phase = "login" /\ heard # <<>> /\ ~dropped
  /\ writePacket(LoginSuccess, threshold)
  /\ phase' = "configuration"
  /\ UNCHANGED <<threshold, taken, clientState, toServer, pending, dropped, heard>>

Writes == Len(SelectSeq(wrote, LAMBDA body : body \in Bodies))

WritePacket(body) ==
  /\ phase = "play" /\ ~dropped
  /\ Writes < MaxWrites
  /\ writePacket(body, threshold)
  /\ UNCHANGED <<phase, threshold, taken, clientState, toServer, pending, dropped, heard>>

\* Mutant: a body below the threshold goes out as it was prepared, all the same.
writePreparedDeflated(body) ==
  /\ phase = "play" /\ ~dropped
  /\ Writes < MaxWrites
  /\ toClient' = toClient \o
       IF threshold # Off THEN CompressedFrame(Len(body), Compress(body)) ELSE Frame(body)
  /\ wrote' = Append(wrote, body)
  /\ UNCHANGED <<phase, threshold, taken, clientState, toServer, pending, dropped, heard>>

(* writePrepared, with what PrepareClientbound made of the body: the deflated *)
(* bytes when this connection would deflate it, else what they inflate to.    *)
writePrepared(body) ==
  /\ phase = "play" /\ ~dropped
  /\ Writes < MaxWrites
  /\ LET prepared == [Size |-> Len(body), Deflated |-> Compress(body)]
         inflated == Decompress(prepared.Deflated, prepared.Size)
     IN  toClient' = toClient \o
           IF threshold # Off /\ prepared.Size >= threshold
           THEN CompressedFrame(prepared.Size, prepared.Deflated)
           ELSE IF threshold # Off THEN CompressedFrame(0, inflated.body)
           ELSE Frame(inflated.body)
  /\ wrote' = Append(wrote, body)
  /\ UNCHANGED <<phase, threshold, taken, clientState, toServer, pending, dropped, heard>>

-------------------------------------------------------------------------------
(* The client at the other end. It says hello and waits for its login to be   *)
(* settled, then says what it likes.                                          *)
Say(body, form) ==
  /\ Len(said) < MaxSays
  /\ IF said = <<>> THEN body = Hello /\ form = "fit" ELSE settled /\ body \in Spoken
  /\ CanBeIn(body, form)
  /\ toServer' = toServer \o InForm(body, form)
  /\ said' = Append(said, [body |-> body, form |-> form])
  /\ UNCHANGED <<serverState, settled, told, got, pending, dropped, heard>>

(* It reads a frame, and keeps what it makes of it: <<>> when that is nothing. *)
(* The ids of a login mean what they do until it is settled.                  *)
Get ==
  LET frame == FrameIn(toClient, MaxPacketSize)
      body == IF told = Off THEN Made(frame.body)
              ELSE DecompressBody(frame.body, told, MaxPacketSize)
  IN  /\ frame.is = "whole"
      /\ toClient' = From(toClient, frame.size)
      /\ got' = Append(got, body.body)
      /\ told' = IF ~settled /\ \E t \in Thresholds : body.body = SetCompression(t)
                 THEN CHOOSE t \in Thresholds : body.body = SetCompression(t)
                 ELSE told
      /\ settled' = (settled \/ body.body = LoginSuccess)
      /\ UNCHANGED <<phase, threshold, taken, wrote, said, toServer, pending, dropped, heard>>

-------------------------------------------------------------------------------
(* The server reads.                                                          *)

\* decodeBody, up to the id: a body that cannot be inflated is one packet lost.
decodeBody(body, max) ==
  LET inflated == IF threshold = Off THEN Made(body)
                  ELSE DecompressBody(body, threshold, max)
  IN  IF inflated.ok THEN <<inflated.body>> ELSE <<>>

maxSize == IF phase = "play" THEN MaxPacketSize ELSE maxPrePlayPacketSize

(* ReadPacket by Run, when a whole frame has arrived: it waits on a partial   *)
(* one, and a frame without a valid length ends the connection.               *)
ReadPacket ==
  LET frame == FrameIn(toServer, maxSize)
  IN  /\ ~taken /\ ~dropped
      /\ \/ /\ frame.is = "invalid"
            /\ dropped' = TRUE
            /\ UNCHANGED <<toServer, heard>>
         \/ /\ frame.is = "whole"
            /\ toServer' = From(toServer, frame.size)
            /\ heard' = heard \o decodeBody(frame.body, maxSize)
            /\ UNCHANGED dropped
      /\ UNCHANGED <<serverState, clientState, pending>>

\* A handler puts the connection in play.
EnterPlay ==
  /\ phase = "configuration" /\ ~dropped
  /\ phase' = "play"
  /\ UNCHANGED <<threshold, toClient, taken, wrote, clientState, toServer,
                 pending, dropped, heard>>

\* Mutant: a length that is cut off is a stream that has lost its place.
processPendingImpatient(bytes) ==
  LET served[consumed \in 0 .. Len(bytes)] ==
        LET frame == FrameIn(From(bytes, consumed), MaxPacketSize)
        IN  CASE frame.is = "partial" ->
                   [heard |-> <<>>, left |-> From(bytes, consumed),
                    dropped |-> consumed < Len(bytes)
                                /\ readVarInt(From(bytes, consumed)).err = "EOF"]
              [] frame.is = "invalid" ->
                   [heard |-> <<>>, left |-> <<>>, dropped |-> TRUE]
              [] frame.is = "whole" ->
                   LET rest == served[consumed + frame.size]
                   IN  [heard |-> decodeBody(frame.body, MaxPacketSize) \o rest.heard,
                        left |-> rest.left, dropped |-> rest.dropped]
  IN  served[0]

\* Mutant: one frame at a time, the next with the next bytes to arrive.
processPendingOne(bytes) ==
  LET frame == FrameIn(bytes, MaxPacketSize)
  IN  CASE frame.is = "partial" ->
             [heard |-> <<>>, left |-> bytes, dropped |-> FALSE]
        [] frame.is = "invalid" ->
             [heard |-> <<>>, left |-> <<>>, dropped |-> TRUE]
        [] frame.is = "whole" ->
             [heard |-> decodeBody(frame.body, MaxPacketSize),
              left |-> From(bytes, frame.size), dropped |-> FALSE]

\* Mutant: what has been served is not moved out of the buffer.
processPendingKeeps(bytes) ==
  LET served[consumed \in 0 .. Len(bytes)] ==
        LET frame == FrameIn(From(bytes, consumed), MaxPacketSize)
        IN  CASE frame.is = "partial" ->
                   [heard |-> <<>>, left |-> bytes, dropped |-> FALSE]
              [] frame.is = "invalid" ->
                   [heard |-> <<>>, left |-> <<>>, dropped |-> TRUE]
              [] frame.is = "whole" ->
                   LET rest == served[consumed + frame.size]
                   IN  [heard |-> decodeBody(frame.body, MaxPacketSize) \o rest.heard,
                        left |-> rest.left, dropped |-> rest.dropped]
  IN  served[0]

(* processPending on what the reactor holds: every whole frame is handled,    *)
(* one without a valid length drops the connection, and what is left is the   *)
(* head of a frame still arriving. A dropped connection is read no further.   *)
processPending(bytes) ==
  LET served[consumed \in 0 .. Len(bytes)] ==
        LET frame == FrameIn(From(bytes, consumed), MaxPacketSize)
        IN  IF frame.is = "partial"
            THEN [heard |-> <<>>, left |-> From(bytes, consumed), dropped |-> FALSE]
            ELSE IF frame.is = "invalid"
            THEN [heard |-> <<>>, left |-> <<>>, dropped |-> TRUE]
            ELSE LET rest == served[consumed + frame.size]
                 IN  [heard |-> decodeBody(frame.body, MaxPacketSize) \o rest.heard,
                      left |-> rest.left, dropped |-> rest.dropped]
  IN  served[0]

Serve(bytes) ==
  LET served == processPending(bytes)
  IN  /\ heard' = heard \o served.heard
      /\ pending' = served.left
      /\ dropped' = served.dropped

(* take, and register behind it: whatever the read loop had pulled off the    *)
(* connection and not consumed is pending, and is served before any read.     *)
register(n) ==
  /\ phase = "play" /\ ~taken /\ ~dropped
  /\ n <= Len(toServer)
  /\ taken' = TRUE
  /\ toServer' = From(toServer, n)
  /\ Serve(SubSeq(toServer, 1, n))
  /\ UNCHANGED <<phase, threshold, toClient, wrote, clientState>>

\* readReady, one read of it.
readReady(n) ==
  /\ taken /\ ~dropped
  /\ n <= Len(toServer)
  /\ toServer' = From(toServer, n)
  /\ Serve(pending \o SubSeq(toServer, 1, n))
  /\ UNCHANGED <<serverState, clientState>>

-------------------------------------------------------------------------------
Next ==
  \/ \E t \in Thresholds : EnableCompression(t)
  \/ FinishLogin
  \/ \E body \in Bodies : WritePacket(body) \/ writePrepared(body)
  \/ \E body \in Spoken \cup {Hello}, form \in Forms : Say(body, form)
  \/ Get
  \/ ReadPacket
  \/ EnterPlay
  \/ \E n \in 0 .. ReadSize : register(n)
  \/ \E n \in 1 .. ReadSize : readReady(n)

Spec == Init /\ [][Next]_vars

-------------------------------------------------------------------------------
ReadBack == ReadsBack(toClient)
ReadsWhatIsThere ==
  said = <<>> /\ toClient = <<>> =>
    \A b \in UNION {[1 .. n -> ByteValues] : n \in 0 .. MaxSize + 1} : ReadsAsSummed(b)

(* A var int in front of whatever is on its way to the client, as the length  *)
(* of a frame is, and a field of a body, is read back by its own bytes alone. *)
(* And what may arrive first on a connection is anything: whatever it is, the *)
(* server reads a value that is there, waits only for what a value still      *)
(* needs, and refuses what is none (minecraft.go:266-306).                    *)
VarIntsReadBack == ReadBack /\ ReadsWhatIsThere

\* Of the first k things said, the bodies framed as the protocol has it.
FitAmong(s) ==
  LET fit[k \in 0 .. Len(s)] ==
        IF k = 0 THEN <<>>
        ELSE IF s[k].form = "fit" THEN Append(fit[k - 1], s[k].body)
        ELSE fit[k - 1]
  IN  fit

\* The bodies the client framed as it was told to, up to the first empty frame.
SaidWell ==
  LET ends == {k \in DOMAIN said : said[k].form = "empty"}
      until == IF ends = {} THEN Len(said) ELSE Min(ends) - 1
  IN  FitAmong(said)[until]

HeardAsSaid ==
  /\ IsPrefix(heard, SaidWell)
  /\ toServer = <<>> /\ pending = <<>> /\ ~dropped => heard = SaidWell

GotAsWritten ==
  /\ IsPrefix(got, wrote)
  /\ toClient = <<>> => got = wrote

(* Every body the client framed as the protocol has it is heard, once and in  *)
(* order, whichever of the two readers found it and however its bytes were    *)
(* split between reads; one the server could not make sense of costs that     *)
(* packet and never the place of the next. And every packet the server        *)
(* writes, prepared ahead of time or not, before or after the one that        *)
(* announces the threshold, reads at the client as the body it was written    *)
(* from.                                                                      *)
BothWaysAsMeant == HeardAsSaid /\ GotAsWritten

(* The server gives a connection up for nothing but a frame without a valid   *)
(* length: not for one that is still arriving, its length cut off mid-byte,   *)
(* nor for a body it cannot inflate.                                          *)
DroppedForCause ==
  dropped => \E k \in DOMAIN said : said[k].form = "empty"

(* No whole frame waits in what the reactor holds for bytes that may never    *)
(* follow it: what the read loop left it is served at the takeover, and every *)
(* frame a read completes is served with it. So it never holds more than the  *)
(* longest frame is short of, whatever bytes arrive.                          *)
NoFrameWaits ==
  /\ taken => FrameIn(pending, MaxPacketSize).is = "partial"
  /\ Len(pending) < MaxPacketSize + MaxSize
===============================================================================
