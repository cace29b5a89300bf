-------------------------------- MODULE Streams --------------------------------
(* The two halves of one connection under src/streams/minecraft.go: a         *)
(* buffered reader and a buffered writer on a socket, under which the cipher  *)
(* of src/streams/encryption.go is put while bytes may already sit in either  *)
(* buffer, and whose read half src/server/reactor.go takes over with whatever *)
(* the reader still holds.                                                    *)
(*                                                                            *)
(* A byte is what it says (which end sent it, and as which of its bytes) and  *)
(* the key stream it is under, <<>> when it is plain. The key stream is a     *)
(* function of the register alone, so a register stands for the byte of key   *)
(* stream it makes, and exclusive or with it is undone only by the same one.  *)
EXTENDS Integers, Sequences

CONSTANTS
  Length,      \* bound: how many bytes the client sends
  Writes,      \* bound: how many bytes the server writes
  Cuts,        \* after how many bytes of its own the client turns its cipher on
  BlockSize,   \* bytes in the register
  BufferSize,  \* connBufferSize
  ReadSize     \* len(reactor.readBuf)

ASSUME CutsAssumption == Cuts \subseteq 0 .. Length
ASSUME BoundsAssumption ==
  /\ {Length, Writes} \subseteq Nat
  /\ {BlockSize, BufferSize, ReadSize} \subseteq Nat \ {0}

VARIABLES
  cut,          \* the client's bytes after this many are enciphered
  sent,         \* how many bytes the client has sent
  taken,        \* how many of them were read off the socket
  reader,       \* the unread part of s.reader
  preEncrypted, \* the unread part of s.preEncrypted
  decrypter,    \* s.readDecrypter, and rc.decrypter after it
  encrypted,    \* s.encrypted
  want,         \* bytes the read under way is still short of
  read,         \* the bytes handed up, in order
  takenOver,    \* TakeoverRead has been called
  encrypter,    \* the cipher under the writer
  meant,        \* how many bytes were written before the cipher was on
  written,      \* how many bytes the server has written
  writer,       \* the unflushed part of the writer
  out           \* what has gone out on the socket

readHalf == <<sent, taken, reader, preEncrypted, decrypter, want, read, takenOver>>
writeHalf == <<encrypter, meant, written, writer, out>>
vars == <<cut, encrypted, readHalf, writeHalf>>

Nothing == <<>>

Byte(from, at) == [from |-> from, at |-> at, under |-> Nothing]

(* newCfb8: the register starts as the secret, which both ends hold. A byte   *)
(* of ciphertext goes into a register as its name alone.                      *)
newCfb8(decrypt) ==
  [register |-> [k \in 1 .. BlockSize |-> <<"secret", k, FALSE>>],
   decrypt |-> decrypt]

Name(b) == <<b.from, b.at, b.under = Nothing>>

(* in ^ c.keyStream[0]: key stream on a plain byte, off a byte that is under  *)
(* the same, and otherwise a byte that says nothing.                          *)
Xor(b, register) ==
  CASE b.under = Nothing  -> [b EXCEPT !.under = register]
    [] b.under = register -> [b EXCEPT !.under = Nothing]
    [] OTHER              -> Byte("noise", 0)

\* Mutant: a cipher that feeds its own output back in either direction.
XORKeyStreamFeedsOutput(c, src) ==
  LET after[i \in 0 .. Len(src)] ==
        IF i = 0 THEN [cipher |-> c, dst |-> <<>>]
        ELSE LET before == after[i - 1]
                 made == Xor(src[i], before.cipher.register)
             IN  [cipher |-> [before.cipher EXCEPT
                                !.register = Tail(Append(@, Name(made)))],
                  dst |-> Append(before.dst, made)]
  IN  after[Len(src)]

(* cfb8.XORKeyStream on src: the cipher it leaves and the bytes it makes.     *)
XORKeyStream(c, src) ==
  LET after[i \in 0 .. Len(src)] ==
        IF i = 0 THEN [cipher |-> c, dst |-> <<>>]
        ELSE LET before == after[i - 1]
                 register == before.cipher.register
                 made == Xor(src[i], register)
                 feedback == IF c.decrypt THEN src[i] ELSE made
             IN  [cipher |-> [before.cipher EXCEPT
                                !.register = Tail(Append(register, Name(feedback)))],
                  dst |-> Append(before.dst, made)]
  IN  after[Len(src)]

\* What the client puts on the wire, all of it, by where its cipher comes on.
Wires ==
  [c \in Cuts |->
     LET says(i) == Byte("client", i)
         enciphered == XORKeyStream(newCfb8(FALSE),
                         [k \in 1 .. Length - c |-> says(c + k)]).dst
     IN  [i \in 1 .. Length |-> IF i <= c THEN says(i) ELSE enciphered[i - c]]]

Smaller(a, b) == IF a < b THEN a ELSE b
Drop(s, n) == SubSeq(s, n + 1, Len(s))
Take(s, n) == SubSeq(s, 1, Smaller(n, Len(s)))

Init ==
  /\ cut \in Cuts
  /\ sent = 0 /\ taken = 0 /\ want = 0 /\ meant = 0 /\ written = 0
  /\ reader = <<>> /\ preEncrypted = <<>> /\ read = <<>>
  /\ writer = <<>> /\ out = <<>>
  /\ decrypter = Nothing /\ encrypter = Nothing
  /\ encrypted = FALSE /\ takenOver = FALSE

-------------------------------------------------------------------------------
(* The client. It enciphers from the byte after its encryption response on,   *)
(* and nothing makes it wait for the server to do the same.                   *)
Send ==
  /\ sent < Length
  /\ sent' = sent + 1
  /\ UNCHANGED <<cut, encrypted, taken, reader, preEncrypted, decrypter, want,
                 read, takenOver, writeHalf>>

-------------------------------------------------------------------------------
(* The read half.                                                             *)

(* One Read of at most size bytes off the socket. What has arrived is all a   *)
(* read can have, and a read with nothing to have waits.                      *)
Socket(size) == SubSeq(Wires[cut], taken + 1, Smaller(taken + size, sent))

Deciphered(c, chunk) ==
  IF c = Nothing THEN [cipher |-> c, dst |-> chunk] ELSE XORKeyStream(c, chunk)

(* One Read of at most size bytes by the buffered reader of what is under it: *)
(* the socket, or io.MultiReader over preEncrypted and the deciphered socket. *)
(* Found is what it returns, and it waits when there is nothing.              *)
Found(size) ==
  IF preEncrypted # <<>> THEN Take(preEncrypted, size)
  ELSE Deciphered(decrypter, Socket(size)).dst

Underlying(size) ==
  \/ /\ preEncrypted # <<>>
     /\ preEncrypted' = Drop(preEncrypted, size)
     /\ UNCHANGED <<taken, decrypter>>
  \/ /\ preEncrypted = <<>>
     /\ Socket(size) # <<>>
     /\ decrypter' = Deciphered(decrypter, Socket(size)).cipher
     /\ taken' = taken + Len(Socket(size))
     /\ UNCHANGED preEncrypted

(* ReadByte, ReadBytes and the io.ReadFull of ReadFrameInto begin: n bytes    *)
(* are wanted. The read before the cipher goes on ends with the last byte the *)
(* client sent plain, for that is the end of its encryption response.         *)
Ask(n) ==
  /\ ~takenOver /\ want = 0
  /\ cut < Length /\ ~encrypted => Len(read) + n <= cut
  /\ want' = n
  /\ UNCHANGED <<cut, encrypted, sent, taken, reader, preEncrypted, decrypter,
                 read, takenOver, writeHalf>>

(* bufio.Reader.Read with room for want bytes: out of the buffer, filling it  *)
(* first when it is empty, unless the room is as large as the buffer.         *)
Read ==
  /\ want > 0
  /\ \/ /\ reader # <<>>
        /\ read' = read \o Take(reader, want)
        /\ reader' = Drop(reader, want)
        /\ UNCHANGED <<taken, preEncrypted, decrypter>>
     \/ /\ reader = <<>> /\ want >= BufferSize
        /\ Underlying(want)
        /\ read' = read \o Found(want)
        /\ UNCHANGED reader
     \/ /\ reader = <<>> /\ want < BufferSize
        /\ Underlying(BufferSize)
        /\ read' = read \o Take(Found(BufferSize), want)
        /\ reader' = Drop(Found(BufferSize), want)
  /\ want' = want - (Len(read') - Len(read))
  /\ UNCHANGED <<cut, encrypted, sent, takenOver, writeHalf>>

\* Mutant: the cipher goes on without a flush, the writer's buffer kept.
EnableEncryptionUnflushed ==
  /\ ~encrypted /\ ~takenOver /\ want = 0
  /\ cut < Length /\ Len(read) = cut
  /\ meant' = written
  /\ LET buffered == XORKeyStream(newCfb8(TRUE), reader)
     IN  /\ decrypter' = buffered.cipher
         /\ preEncrypted' = buffered.dst
  /\ reader' = <<>>
  /\ encrypter' = newCfb8(FALSE)
  /\ encrypted' = TRUE
  /\ UNCHANGED <<cut, sent, taken, want, read, takenOver, written, writer, out>>

\* Mutant: a second cipher for the socket, beside the one the buffered bytes went through.
EnableEncryptionTwoCiphers ==
  /\ ~encrypted /\ ~takenOver /\ want = 0
  /\ cut < Length /\ Len(read) = cut
  /\ out' = out \o writer
  /\ writer' = <<>>
  /\ meant' = written
  /\ preEncrypted' = XORKeyStream(newCfb8(TRUE), reader).dst
  /\ decrypter' = newCfb8(TRUE)
  /\ reader' = <<>>
  /\ encrypter' = newCfb8(FALSE)
  /\ encrypted' = TRUE
  /\ UNCHANGED <<cut, sent, taken, want, read, takenOver, written>>

(* EnableEncryption, called by CompleteEncryption when the encryption         *)
(* response has been read. A stream that is encrypted already, a secret that  *)
(* is no key and a flush that fails leave everything as it was.               *)
EnableEncryption ==
  /\ ~encrypted /\ ~takenOver /\ want = 0
  /\ cut < Length /\ Len(read) = cut
  /\ out' = out \o writer
  /\ writer' = <<>>
  /\ meant' = written
  /\ LET buffered == XORKeyStream(newCfb8(TRUE), reader)
     IN  /\ decrypter' = buffered.cipher
         /\ preEncrypted' = buffered.dst
  /\ reader' = <<>>
  /\ encrypter' = newCfb8(FALSE)
  /\ encrypted' = TRUE
  /\ UNCHANGED <<cut, sent, taken, want, read, takenOver, written>>

\* Mutant: the read half given away without what EnableEncryption deciphered.
TakeoverReadReaderOnly ==
  /\ ~takenOver /\ want = 0
  /\ cut < Length => encrypted
  /\ read' = read \o reader
  /\ reader' = <<>>
  /\ takenOver' = TRUE
  /\ UNCHANGED <<cut, encrypted, sent, taken, preEncrypted, decrypter, want,
                 writeHalf>>

\* Mutant: the read half given away as if nothing could have been read ahead of it.
TakeoverReadBare ==
  /\ ~takenOver /\ want = 0
  /\ cut < Length => encrypted
  /\ takenOver' = TRUE
  /\ UNCHANGED <<cut, encrypted, sent, taken, reader, preEncrypted, decrypter,
                 want, read, writeHalf>>

(* TakeoverRead, called by take once the read loop is done: what it returns   *)
(* becomes rc.pending, and the cipher rc.decrypter.                           *)
TakeoverRead ==
  /\ ~takenOver /\ want = 0
  /\ cut < Length => encrypted
  /\ read' = read \o reader \o preEncrypted
  /\ reader' = <<>>
  /\ preEncrypted' = <<>>
  /\ takenOver' = TRUE
  /\ UNCHANGED <<cut, encrypted, sent, taken, decrypter, want, writeHalf>>

(* readReady takes what the socket has, once: readBuf's worth, deciphered in  *)
(* place and appended to rc.pending.                                          *)
ReadReady ==
  /\ takenOver
  /\ LET chunk == Socket(ReadSize)
         plain == Deciphered(decrypter, chunk)
     IN  /\ chunk # <<>>
         /\ decrypter' = plain.cipher
         /\ read' = read \o plain.dst
         /\ taken' = taken + Len(chunk)
  /\ UNCHANGED <<cut, encrypted, sent, reader, preEncrypted, want, takenOver,
                 writeHalf>>

-------------------------------------------------------------------------------
(* The write half.                                                            *)

\* Bytes handed to the socket: plain, or through cipher.StreamWriter.
Emit(bytes) ==
  LET made == Deciphered(encrypter, bytes)
  IN  /\ out' = out \o made.dst
      /\ encrypter' = made.cipher

\* Mutant: what is written is held until the next flush, however much it is.
WriteHolds(n) ==
  /\ written + n <= Writes
  /\ writer' = writer \o [k \in 1 .. n |-> Byte("server", written + k)]
  /\ written' = written + n
  /\ UNCHANGED <<cut, encrypted, readHalf, encrypter, out, meant>>

(* bufio.Writer.Write of n bytes: what does not fit fills the buffer and      *)
(* flushes it, and what is then still larger than the buffer goes past it.    *)
Write(n) ==
  LET new == [k \in 1 .. n |-> Byte("server", written + k)]
      all == writer \o new
      rest == Drop(all, BufferSize)
      keep == IF Len(all) <= BufferSize THEN all
              ELSE IF writer = <<>> \/ Len(rest) > BufferSize THEN <<>> ELSE rest
  IN  /\ written + n <= Writes
      /\ Emit(Take(all, Len(all) - Len(keep)))
      /\ writer' = keep
      /\ written' = written + n
      /\ UNCHANGED <<cut, encrypted, readHalf, meant>>

Flush ==
  /\ writer # <<>>
  /\ Emit(writer)
  /\ writer' = <<>>
  /\ UNCHANGED <<cut, encrypted, readHalf, meant, written>>

-------------------------------------------------------------------------------
Next ==
  \/ Send
  \/ \E n \in 1 .. Length : Ask(n)
  \/ Read
  \/ EnableEncryption
  \/ TakeoverRead
  \/ ReadReady
  \/ \E n \in 1 .. Writes : Write(n)
  \/ Flush

Spec == Init /\ [][Next]_vars

(* A read that can return does, the loops that read go on reading, and the    *)
(* handler of an encryption response enables encryption. The client sends on. *)
Fairness ==
  /\ WF_vars(Send)
  /\ WF_vars(Read)
  /\ WF_vars(\E n \in 1 .. Length : Ask(n))
  /\ WF_vars(EnableEncryption)
  /\ WF_vars(ReadReady)

FairSpec == Spec /\ Fairness

-------------------------------------------------------------------------------
Registers == [1 .. BlockSize -> {"secret", "client", "server", "noise"}
                                \X (0 .. Length + Writes + BlockSize) \X BOOLEAN]
Bytes(from) == [from : {from, "noise"}, at : 0 .. Length + Writes,
                under : {Nothing} \cup Registers]
Ciphers == [register : Registers, decrypt : BOOLEAN] \cup {Nothing}

(* The variables have their types, and the buffers of newly made readers and  *)
(* writers, connBufferSize in EnableEncryption too, hold no more than they    *)
(* may.                                                                       *)
TypeOK ==
  /\ cut \in Cuts
  /\ 0 <= taken /\ taken <= sent /\ sent <= Length /\ want \in 0 .. Length
  /\ 0 <= meant /\ meant <= written /\ written <= Writes
  /\ {encrypted, takenOver} \subseteq BOOLEAN
  /\ \A s \in {reader, preEncrypted, read} :
       \A k \in DOMAIN s : s[k] \in Bytes("client")
  /\ \A s \in {writer, out} : \A k \in DOMAIN s : s[k] \in Bytes("server")
  /\ Len(reader) <= BufferSize /\ Len(preEncrypted) <= BufferSize
  /\ Len(writer) <= BufferSize
  /\ decrypter \in Ciphers /\ encrypter \in Ciphers

(* What is handed up, by the stream and then by the reactor, is what the      *)
(* client meant to say: every byte once, in the order it was sent, deciphered *)
(* if it came enciphered and only then, wherever it sat when EnableEncryption *)
(* put the cipher on and when TakeoverRead gave the read half away.           *)
DeliveredInOrder ==
  \A k \in DOMAIN read : read[k] = Byte("client", k)

(* A byte that was read off the socket is handed up or is still where a later *)
(* read finds it, through EnableEncryption and TakeoverRead too: none falls   *)
(* between the buffered reader, preEncrypted and the pending of the reactor.  *)
NoByteStranded ==
  IF takenOver THEN Len(read) = taken
  ELSE Len(read) + Len(reader) + Len(preEncrypted) = taken

\* What the client reads, its cipher on from the byte the server meant it to be.
ClientReads ==
  IF ~encrypted THEN out
  ELSE Take(out, meant) \o XORKeyStream(newCfb8(TRUE), Drop(out, meant)).dst

(* What goes out on the socket is what was written, in order: plain for all   *)
(* that was written before EnableEncryption, whether or not it had been       *)
(* flushed, and under one unbroken key stream for all that was written after. *)
WrittenAsMeant ==
  \A k \in DOMAIN out : ClientReads[k] = Byte("server", k)

(* Everything the client sends is handed up in the end, whatever sat where    *)
(* when the cipher went on and when the read half was given away.             *)
EverythingRead == <>(Len(read) = Length)
================================================================================
