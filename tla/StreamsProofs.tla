---------------------------- MODULE StreamsProofs ----------------------------
(* What Streams promises, for streams, buffers and registers of every size.   *)
(* A run of bytes is compared with the function that says what the byte of    *)
(* every place is, in the clear or on the wire; the cipher turns the one into *)
(* the other byte by byte, and that it stays in step with its counterpart is  *)
(* shown by induction on the bytes it has been given.                         *)
EXTENDS Streams, SequenceTheorems, WellFoundedInduction, TLAPS

-------------------------------------------------------------------------------
(* The inductive invariant                                                    *)

\* The register after k bytes under a cipher that went on after b.
Register(f, b, k) ==
  [j \in 1 .. BlockSize |-> IF k + j <= BlockSize THEN <<"secret", k + j, FALSE>>
                            ELSE <<f, b + k + j - BlockSize, FALSE>>]
InStep(f, b, k, decrypt) == [register |-> Register(f, b, k), decrypt |-> decrypt]
Encrypter(f, b, k) == InStep(f, b, k, FALSE)
Decrypter(f, b, k) == InStep(f, b, k, TRUE)

\* The bytes of one end in the clear, and on the wire.
Clear(f) == [i \in Nat |-> Byte(f, i)]
Wire(f, b) ==
  [i \in Nat |-> IF i <= b THEN Byte(f, i)
                 ELSE [from |-> f, at |-> i, under |-> Register(f, b, i - b - 1)]]

\* What goes into a cipher and what comes out of it, either way.
Given(f, b, decrypt) == IF decrypt THEN Wire(f, b) ELSE Clear(f)
Made(f, b, decrypt) == IF decrypt THEN Clear(f) ELSE Wire(f, b)

\* The sequence says what w does after its first n.
Says(s, w, n) == \A i \in 1 .. Len(s) : s[i] = w[n + i]
Within(w, n, m, S) == \A i \in 1 .. m : w[n + i] \in S

\* What waits to be read: as it came before the cipher is on, in the clear after.
Ahead == IF encrypted THEN Clear("client") ELSE Wire("client", cut)

ReadType ==
  /\ cut \in Cuts /\ encrypted \in BOOLEAN /\ takenOver \in BOOLEAN
  /\ {sent, taken, want} \subseteq Nat /\ taken <= sent /\ sent <= Length /\ want <= Length
  /\ {reader, preEncrypted, read} \subseteq Seq(Bytes("client"))
  /\ Len(reader) <= BufferSize /\ Len(preEncrypted) <= BufferSize

\* Every byte that was taken is in one place, and the places follow each other.
InPlace ==
  /\ Len(read) + Len(reader) + Len(preEncrypted) = taken
  /\ Says(read, Clear("client"), 0)
  /\ Says(reader, Ahead, Len(read))
  /\ Says(preEncrypted, Ahead, Len(read) + Len(reader))

\* The decrypter is where the socket is, not where the reader is.
DecrypterInStep ==
  IF encrypted
  THEN cut <= Len(read) /\ decrypter = Decrypter("client", cut, taken - cut)
  ELSE /\ decrypter = Nothing /\ preEncrypted = <<>>
       /\ cut < Length => Len(read) + want <= cut /\ ~takenOver

NothingBehind == takenOver => want = 0 /\ reader = <<>> /\ preEncrypted = <<>>

ReadInv == ReadType /\ InPlace /\ DecrypterInStep /\ NothingBehind

WriteType ==
  /\ {meant, written} \subseteq Nat /\ written <= Writes
  /\ {writer, out} \subseteq Seq(Bytes("server")) /\ Len(writer) <= BufferSize

\* What was written and has not gone out is in the clear, and next.
Unflushed ==
  /\ Len(out) + Len(writer) = written
  /\ Says(writer, Clear("server"), Len(out))

\* What has gone out is as it was meant to, and the encrypter is where it ends.
EncrypterInStep ==
  IF encrypted
  THEN /\ meant <= Len(out) /\ Says(out, Wire("server", meant), 0)
       /\ encrypter = Encrypter("server", meant, Len(out) - meant)
  ELSE meant = 0 /\ encrypter = Nothing /\ Says(out, Clear("server"), 0)

WriteInv == WriteType /\ Unflushed /\ EncrypterInStep

StreamsInv == ReadInv /\ WriteInv

-------------------------------------------------------------------------------
(* Induction on a length                                                      *)

Less == OpToRel(<, Nat)

\* What Less relates.
LEMMA LessIs == \A x, y : <<x, y>> \in Less <=> x \in Nat /\ y \in Nat /\ x < y
  BY DEF Less, OpToRel

\* Numbers among which is zero and, with each, the next, are all there are.
LEMMA SetInduction ==
  ASSUME NEW T, T \subseteq Nat, 0 \in T, \A n \in T : n + 1 \in T
  PROVE  T = Nat
<1> DEFINE U == Nat \ T
<1>1. SUFFICES ASSUME U # {}
               PROVE  FALSE
  OBVIOUS
<1>2. IsWellFoundedOn(Less, Nat)
  BY NatLessThanWellFounded DEF Less
<1>3. PICK x \in U : \A y \in U : ~(<<y, x>> \in Less)
  <2>1. U \subseteq Nat
    OBVIOUS
  <2> HIDE DEF U
  <2>. QED BY <1>1, <1>2, <2>1, WFMin
<1>4. x \in Nat /\ x # 0 /\ x - 1 \in Nat /\ (x - 1) + 1 = x /\ x - 1 < x
  OBVIOUS
<1>5. x - 1 \in T
  BY <1>3, <1>4, LessIs
<1>6. (x - 1) + 1 \in T
  BY <1>5
<1>. QED BY <1>4, <1>6

-------------------------------------------------------------------------------
(* The cipher                                                                 *)

\* One turn of the loop of XORKeyStream, and what is made of the first i bytes.
Turn(c, before, b) ==
  LET register == before.cipher.register
      made == Xor(b, register)
      feedback == IF c.decrypt THEN b ELSE made
  IN  [cipher |-> [before.cipher EXCEPT
                     !.register = Tail(Append(register, Name(feedback)))],
       dst |-> Append(before.dst, made)]
Stage(c, dst) == [cipher |-> c, dst |-> dst]
Turns(g, c, src) ==
  /\ g[0] = [cipher |-> c, dst |-> <<>>]
  /\ \A i \in 1 .. Len(src) : g[i] = Turn(c, g[i - 1], src[i])

\* XORKeyStream takes its turns one after the other.
LEMMA XORKeyStreamTurns ==
  ASSUME NEW c, NEW src, Len(src) \in Nat
  PROVE  \E g : Turns(g, c, src) /\ XORKeyStream(c, src) = g[Len(src)]
<1> DEFINE n == Len(src)
           Next0(g, i) == IF i = 0 THEN [cipher |-> c, dst |-> <<>>]
                          ELSE Turn(c, g[i - 1], src[i])
           Upto(m, g) == g = [i \in 0 .. m |-> Next0(g, i)]
           after == CHOOSE g : g = [i \in 0 .. n |-> Next0(g, i)]
<1>1. XORKeyStream(c, src) = after[n]
  BY Zenon DEF XORKeyStream, Turn
<1>2. \A m \in Nat : \E g : Upto(m, g)
  <2> DEFINE T == {m \in Nat : \E g : Upto(m, g)}
  <2>1. 0 \in T
    <3> DEFINE g0 == [i \in 0 .. 0 |-> [cipher |-> c, dst |-> <<>>]]
    <3>1. Upto(0, g0)
      OBVIOUS
    <3>. QED BY <3>1
  <2>2. ASSUME NEW m \in T PROVE m + 1 \in T
    <3>1. PICK g : Upto(m, g)
      OBVIOUS
    <3> DEFINE h == [i \in 0 .. m + 1 |-> IF i <= m THEN g[i] ELSE Next0(g, i)]
    <3>2. ASSUME NEW i \in 0 .. m + 1 PROVE h[i] = Next0(h, i)
      <4>1. CASE i = 0
        BY <3>1, <4>1
      <4>2. CASE i # 0 /\ i <= m
        <5>1. i \in 0 .. m /\ i - 1 \in 0 .. m
          BY <4>2
        <5>2. h[i] = g[i] /\ h[i - 1] = g[i - 1]
          BY <5>1, <4>2
        <5>. QED BY <3>1, <4>2, <5>1, <5>2
      <4>3. CASE i = m + 1
        <5>1. i \in 0 .. m + 1 /\ i - 1 \in 0 .. m + 1 /\ i # 0 /\ ~(i <= m) /\ i - 1 <= m
          BY <4>3
        <5>2. h[i - 1] = g[i - 1] /\ h[i] = Next0(g, i)
          BY <5>1
        <5>. QED BY <5>1, <5>2
      <4>. QED BY <4>1, <4>2, <4>3
    <3>3. Upto(m + 1, h)
      BY <3>2
    <3>4. m + 1 \in Nat /\ \E g1 : Upto(m + 1, g1)
      <4> HIDE DEF Upto, h
      <4>1. m \in Nat
        OBVIOUS
      <4>. QED BY <3>3, <4>1
    <3>. QED BY <3>4
  <2> HIDE DEF T
  <2>3. T \subseteq Nat
    BY DEF T
  <2>4. T = Nat
    BY <2>1, <2>2, <2>3, SetInduction
  <2>. QED BY <2>4 DEF T
<1>3. after = [i \in 0 .. n |-> Next0(after, i)]
  <2>1. \E g : g = [i \in 0 .. n |-> Next0(g, i)]
    BY <1>2
  <2>. QED BY <2>1, Zenon
<1> HIDE DEF after
<1>4. Turns(after, c, src)
  BY <1>3 DEF Turns
<1>. QED BY <1>1, <1>4

\* A register that takes in the next byte of a run is the next register.
LEMMA Shift ==
  ASSUME NEW f, NEW b \in Nat, NEW k \in Nat
  PROVE  /\ Register(f, b, k) # Nothing
         /\ Tail(Append(Register(f, b, k), <<f, b + k + 1, FALSE>>)) = Register(f, b, k + 1)
<1> DEFINE old == Register(f, b, k)
           new == Register(f, b, k + 1)
           name == <<f, b + k + 1, FALSE>>
           S == {old[j] : j \in 1 .. BlockSize} \cup {name}
<1>1. BlockSize \in Nat \ {0}
  BY BoundsAssumption
<1>2. \A j \in 1 .. BlockSize :
        /\ old[j] = IF k + j <= BlockSize THEN <<"secret", k + j, FALSE>>
                    ELSE <<f, b + k + j - BlockSize, FALSE>>
        /\ new[j] = IF (k + 1) + j <= BlockSize THEN <<"secret", (k + 1) + j, FALSE>>
                    ELSE <<f, b + (k + 1) + j - BlockSize, FALSE>>
  BY DEF Register
<1>3. old \in Seq(S) /\ Len(old) = BlockSize /\ new = [j \in 1 .. BlockSize |-> new[j]]
  <2>1. old = [j \in 1 .. BlockSize |-> old[j]]
    BY DEF Register
  <2>2. new = [j \in 1 .. BlockSize |-> new[j]]
    BY DEF Register
  <2> HIDE DEF old, new
  <2>3. old \in [1 .. BlockSize -> S]
    BY <2>1
  <2>4. old \in Seq(S)
    BY <2>3, <1>1, SeqDef
  <2>5. DOMAIN old = 1 .. BlockSize
    BY <2>3
  <2>6. Len(old) = BlockSize
    BY <2>4, <2>5, <1>1, LenProperties
  <2>. QED BY <2>2, <2>4, <2>6
<1> HIDE DEF old, new
<1>4. \A j \in 1 .. BlockSize - 1 : new[j] = old[j + 1]
  <2> TAKE j \in 1 .. BlockSize - 1
  <2>1. j \in 1 .. BlockSize /\ j + 1 \in 1 .. BlockSize /\ (k + 1) + j = k + (j + 1)
        /\ b + (k + 1) + j - BlockSize = b + k + (j + 1) - BlockSize
    BY <1>1
  <2>. QED BY <2>1, <1>2
<1>5. new[BlockSize] = name
  <2>1. BlockSize \in 1 .. BlockSize /\ ~((k + 1) + BlockSize <= BlockSize)
        /\ b + (k + 1) + BlockSize - BlockSize = b + k + 1
    BY <1>1
  <2>. QED BY <2>1, <1>2
<1> HIDE DEF name
<1> DEFINE t == Tail(Append(old, name))
<1>6. /\ t \in Seq(S) /\ Len(t) = BlockSize
      /\ \A j \in 1 .. BlockSize - 1 : t[j] = old[j + 1]
      /\ t[BlockSize] = name
  <2>1. name \in S
    OBVIOUS
  <2> HIDE DEF S
  <2>. QED BY <1>1, <1>3, <2>1
<1> HIDE DEF t, S
<1>7. t = [j \in 1 .. BlockSize |-> t[j]]
  BY <1>1, <1>6
<1>8. \A j \in 1 .. BlockSize : t[j] = new[j]
  <2> TAKE j \in 1 .. BlockSize
  <2>1. j \in 1 .. BlockSize - 1 \/ j = BlockSize
    BY <1>1
  <2>. QED BY <2>1, <1>4, <1>5, <1>6
<1>9. t = new
  <2>1. [j \in 1 .. BlockSize |-> t[j]] = [j \in 1 .. BlockSize |-> new[j]]
    BY <1>8
  <2>. QED BY <2>1, <1>3, <1>7
<1>10. old # Nothing
  BY <1>1, <1>3 DEF Nothing
<1>. QED BY <1>9, <1>10 DEF t, old, new, name

\* A new cipher is in step with nothing given to it yet.
LEMMA NewInStep ==
  ASSUME NEW f, NEW b \in Nat, NEW d
  PROVE  newCfb8(d) = InStep(f, b, 0, d)
<1>1. \A j \in 1 .. BlockSize : 0 + j <= BlockSize /\ 0 + j = j
  BY BoundsAssumption
<1>2. [j \in 1 .. BlockSize |-> <<"secret", j, FALSE>>] = Register(f, b, 0)
  BY <1>1 DEF Register
<1>. QED BY <1>2 DEF newCfb8, InStep

\* One byte of the clear, and one off the wire, through a cipher in step.
LEMMA TurnInStep ==
  ASSUME NEW f, NEW b \in Nat, NEW k \in Nat, NEW c, c.decrypt \in BOOLEAN, NEW g,
         g.cipher = InStep(f, b, k, c.decrypt), NEW n, n = b + k + 1
  PROVE  Turn(c, g, Given(f, b, c.decrypt)[n])
           = Stage(InStep(f, b, k + 1, c.decrypt), Append(g.dst, Made(f, b, c.decrypt)[n]))
<1> DEFINE d == c.decrypt
           r == Register(f, b, k)
           on == [from |-> f, at |-> n, under |-> r]
           off == [from |-> f, at |-> n, under |-> Nothing]
<1>1. n \in Nat /\ ~(n <= b) /\ n - b - 1 = k
  OBVIOUS
<1>2. Wire(f, b)[n] = on /\ Clear(f)[n] = off
  BY <1>1 DEF Wire, Clear, Byte
<1>3. r # Nothing /\ Tail(Append(r, <<f, n, FALSE>>)) = Register(f, b, k + 1)
  BY Shift
<1>4. Name(on) = <<f, n, FALSE>>
  BY <1>3 DEF Name
<1>5. Xor(on, r) = off /\ Xor(off, r) = on
  BY <1>3 DEF Xor
<1> HIDE DEF d, r, on, off
<1>6. g.cipher = [register |-> r, decrypt |-> d]
  BY DEF InStep, r, d
<1>7. [g.cipher EXCEPT !.register = Register(f, b, k + 1)] = InStep(f, b, k + 1, d)
  BY <1>6 DEF InStep
<1>8. Tail(Append(r, Name(on))) = Register(f, b, k + 1)
  BY <1>3, <1>4
<1>0. d \in BOOLEAN /\ c.decrypt = d
  BY DEF d
<1>9. CASE d
  <2>1. Turn(c, g, on) = [cipher |-> [g.cipher EXCEPT !.register = Tail(Append(r, Name(on)))],
                          dst |-> Append(g.dst, off)]
    BY <1>5, <1>6, <1>9, <1>0 DEF Turn
  <2>2. Turn(c, g, on) = Stage(InStep(f, b, k + 1, d), Append(g.dst, off))
    BY <2>1, <1>7, <1>8 DEF Stage
  <2>3. Given(f, b, d) = Wire(f, b) /\ Made(f, b, d) = Clear(f)
    BY <1>9, Zenon DEF Given, Made
  <2>. QED BY <2>2, <2>3, <1>2, Zenon DEF d
<1>10. CASE ~d
  <2>1. Turn(c, g, off) = [cipher |-> [g.cipher EXCEPT !.register = Tail(Append(r, Name(on)))],
                           dst |-> Append(g.dst, on)]
    BY <1>5, <1>6, <1>10, <1>0 DEF Turn
  <2>2. Turn(c, g, off) = Stage(InStep(f, b, k + 1, d), Append(g.dst, on))
    BY <2>1, <1>7, <1>8 DEF Stage
  <2>3. Given(f, b, d) = Clear(f) /\ Made(f, b, d) = Wire(f, b)
    BY <1>10, Zenon DEF Given, Made
  <2>. QED BY <2>2, <2>3, <1>2, Zenon DEF d
<1>. QED BY <1>9, <1>10 DEF d

\* What i bytes of a run have been made into.
Through(g, c, f, b, k, i, S) ==
  /\ g.cipher = InStep(f, b, k + i, c.decrypt)
  /\ g.dst \in Seq(S) /\ Len(g.dst) = i
  /\ Says(g.dst, Made(f, b, c.decrypt), b + k)

\* One byte more.
LEMMA TurnThrough ==
  ASSUME NEW f, NEW b \in Nat, NEW k \in Nat, NEW c, c.decrypt \in BOOLEAN, NEW S,
         NEW g, NEW i \in Nat, Through(g, c, f, b, k, i, S), NEW n, n = b + k + (i + 1),
         Made(f, b, c.decrypt)[n] \in S
  PROVE  Through(Turn(c, g, Given(f, b, c.decrypt)[n]), c, f, b, k, i + 1, S)
<1> DEFINE m == k + i
           made == Made(f, b, c.decrypt)
           t == Turn(c, g, Given(f, b, c.decrypt)[n])
<1>1. m \in Nat /\ n = b + m + 1 /\ k + (i + 1) = m + 1 /\ n = (b + k) + (i + 1)
  OBVIOUS
<1>2. g.cipher = InStep(f, b, m, c.decrypt)
  BY DEF Through
<1> HIDE DEF m
<1>3. t = Stage(InStep(f, b, m + 1, c.decrypt), Append(g.dst, made[n]))
  <2>1. ASSUME NEW m1 \in Nat, NEW g1, g1.cipher = InStep(f, b, m1, c.decrypt), NEW n1, n1 = b + m1 + 1
        PROVE  Turn(c, g1, Given(f, b, c.decrypt)[n1])
             = Stage(InStep(f, b, m1 + 1, c.decrypt), Append(g1.dst, Made(f, b, c.decrypt)[n1]))
    BY <2>1, TurnInStep
  <2>. QED BY <1>1, <1>2, <2>1
<1> HIDE DEF t, made
<1>4. t.cipher = InStep(f, b, k + (i + 1), c.decrypt) /\ t.dst = Append(g.dst, made[n])
  BY <1>1, <1>3 DEF Stage
<1>5. g.dst \in Seq(S) /\ Len(g.dst) = i /\ made[n] \in S
  BY DEF Through, made
<1>6. /\ t.dst \in Seq(S) /\ Len(t.dst) = i + 1
      /\ \A j \in 1 .. i : t.dst[j] = g.dst[j]
      /\ t.dst[i + 1] = made[n]
  BY <1>4, <1>5
<1>7. Says(t.dst, made, b + k)
  <2>1. ASSUME NEW j \in 1 .. i + 1 PROVE t.dst[j] = made[b + k + j]
    <3>1. CASE j = i + 1
      BY <3>1, <1>1, <1>6
    <3>2. CASE j # i + 1
      <4>1. j \in 1 .. i
        BY <3>2
      <4>2. g.dst[j] = made[b + k + j]
        BY <4>1, <1>5 DEF Through, Says, made
      <4>. QED BY <4>1, <4>2, <1>6
    <3>. QED BY <3>1, <3>2
  <2>. QED BY <2>1, <1>6 DEF Says
<1>. QED BY <1>4, <1>6, <1>7 DEF Through, made, t

\* A run of bytes through a cipher in step: out of the clear onto the wire, or off
\* it, byte for byte, and the cipher is then in step with what comes after.
LEMMA RunThrough ==
  ASSUME NEW f, NEW b \in Nat, NEW k \in Nat, NEW c, c.decrypt \in BOOLEAN,
         c = InStep(f, b, k, c.decrypt), NEW src, Len(src) \in Nat,
         Says(src, Given(f, b, c.decrypt), b + k), NEW S,
         Within(Made(f, b, c.decrypt), b + k, Len(src), S)
  PROVE  Through(XORKeyStream(c, src), c, f, b, k, Len(src), S)
<1>1. PICK g : Turns(g, c, src) /\ XORKeyStream(c, src) = g[Len(src)]
  BY XORKeyStreamTurns, Zenon
<1> DEFINE Good(i) == Through(g[i], c, f, b, k, i, S)
           T == {i \in Nat : i <= Len(src) => Good(i)}
<1>2. 0 \in T
  <2>1. g[0].cipher = c /\ g[0].dst = <<>> /\ k + 0 = k
    BY <1>1 DEF Turns
  <2>2. <<>> \in Seq(S) /\ Len(<<>>) = 0 /\ Says(<<>>, Made(f, b, c.decrypt), b + k)
    BY DEF Says
  <2>3. Good(0)
    BY <2>1, <2>2 DEF Through
  <2> HIDE DEF Good
  <2>. QED BY <2>3
<1>3. ASSUME NEW i \in T PROVE i + 1 \in T
  <2>1. i \in Nat /\ i + 1 \in Nat /\ (i + 1) - 1 = i
    OBVIOUS
  <2>2. SUFFICES ASSUME i + 1 <= Len(src)
                 PROVE  Good(i + 1)
    BY <2>1
  <2>3. Good(i) /\ i + 1 \in 1 .. Len(src)
    BY <2>1, <2>2
  <2> HIDE DEF T
  <2> DEFINE n == b + k + (i + 1)
  <2>4. g[i + 1] = Turn(c, g[i], src[i + 1])
    BY <1>1, <2>1, <2>3 DEF Turns
  <2>5. src[i + 1] = Given(f, b, c.decrypt)[n] /\ Made(f, b, c.decrypt)[n] \in S
    BY <2>3 DEF Says, Within
  <2> HIDE DEF n
  <2>6. Through(Turn(c, g[i], Given(f, b, c.decrypt)[n]), c, f, b, k, i + 1, S)
    BY <2>1, <2>3, <2>5, TurnThrough DEF n
  <2>. QED BY <2>4, <2>5, <2>6
<1>4. Good(Len(src))
  <2>1. T \subseteq Nat
    OBVIOUS
  <2> HIDE DEF T
  <2>2. T = Nat
    BY <2>1, <1>2, <1>3, SetInduction
  <2>3. Len(src) \in T
    BY <2>2
  <2> USE DEF T
  <2>. QED BY <2>3
<1>. QED BY <1>1, <1>4

-------------------------------------------------------------------------------
(* Runs of bytes                                                              *)

\* Two runs, the second from where the first ends, are one.
LEMMA SaysJoin ==
  ASSUME NEW S, NEW s \in Seq(S), NEW t \in Seq(S), NEW w, NEW n \in Nat,
         Says(s, w, n), Says(t, w, n + Len(s))
  PROVE  /\ s \o t \in Seq(S) /\ Len(s \o t) = Len(s) + Len(t)
         /\ Says(s \o t, w, n)
<1>1. /\ Len(s) \in Nat /\ Len(t) \in Nat
      /\ s \o t \in Seq(S) /\ Len(s \o t) = Len(s) + Len(t)
      /\ \A i \in 1 .. Len(s) : (s \o t)[i] = s[i]
      /\ \A i \in 1 .. Len(t) : (s \o t)[Len(s) + i] = t[i]
  BY ConcatProperties
<1> DEFINE all == s \o t
<1> HIDE DEF all
<1>2. ASSUME NEW i \in 1 .. Len(all) PROVE all[i] = w[n + i]
  <2>1. CASE i <= Len(s)
    <3>1. i \in 1 .. Len(s)
      BY <2>1, <1>1
    <3>. QED BY <3>1, <1>1 DEF Says, all
  <2>2. CASE i > Len(s)
    <3> DEFINE j == i - Len(s)
    <3>1. j \in 1 .. Len(t) /\ Len(s) + j = i /\ (n + Len(s)) + j = n + i
      BY <2>2, <1>1 DEF all
    <3> HIDE DEF j
    <3>2. t[j] = w[(n + Len(s)) + j]
      BY <3>1 DEF Says
    <3>3. all[Len(s) + j] = t[j]
      BY <3>1, <1>1 DEF all
    <3>. QED BY <3>1, <3>2, <3>3
  <2>. QED BY <2>1, <2>2, <1>1 DEF all
<1>. QED BY <1>1, <1>2 DEF Says, all

\* A run cut in two is two, the second from where the first ends.
LEMMA SaysCut ==
  ASSUME NEW S, NEW s \in Seq(S), NEW m \in Nat, NEW w, NEW n \in Nat, Says(s, w, n)
  PROVE  /\ Take(s, m) \in Seq(S) /\ Drop(s, m) \in Seq(S)
         /\ Len(Take(s, m)) = Smaller(m, Len(s))
         /\ Len(Drop(s, m)) = Len(s) - Smaller(m, Len(s))
         /\ Smaller(m, Len(s)) \in Nat
         /\ Says(Take(s, m), w, n)
         /\ Says(Drop(s, m), w, n + Smaller(m, Len(s)))
<1> DEFINE k == Smaller(m, Len(s))
           front == SubSeq(s, 1, k)
           back == SubSeq(s, m + 1, Len(s))
<1>1. Len(s) \in Nat /\ k \in Nat /\ k <= Len(s) /\ (k = m \/ (k = Len(s) /\ m > Len(s)))
  BY DEF Smaller
<1> HIDE DEF k
<1>2. \A i \in 1 .. Len(s) : s[i] \in S
  OBVIOUS
<1>3. /\ front \in Seq(S) /\ Len(front) = k
      /\ \A i \in 1 .. k : front[i] = s[i]
  <2>1. \A i \in 1 .. k : s[i] \in S
    BY <1>1, <1>2
  <2>. QED BY <1>1, <2>1, SubSeqProperties
<1>4. /\ back \in Seq(S) /\ Len(back) = Len(s) - k
      /\ \A i \in 1 .. Len(s) - k : back[i] = s[k + i]
  <2>1. CASE k = m
    <3>1. \A i \in m + 1 .. Len(s) : s[i] \in S
      BY <1>1, <1>2
    <3>2. m + 1 \in Nat /\ m + 1 <= Len(s) + 1
      BY <1>1, <2>1
    <3>. QED BY <1>1, <2>1, <3>1, <3>2, SubSeqProperties
  <2>2. CASE k = Len(s) /\ m > Len(s)
    <3>1. back = <<>>
      BY <1>1, <2>2, SubSeqEmpty
    <3> HIDE DEF back
    <3>. QED BY <3>1, <2>2, <1>1
  <2>. QED BY <2>1, <2>2, <1>1
<1> HIDE DEF front, back
<1>5. Says(front, w, n)
  <2>1. ASSUME NEW i \in 1 .. k PROVE front[i] = w[n + i]
    <3>1. i \in 1 .. Len(s)
      BY <1>1
    <3>. QED BY <3>1, <1>3 DEF Says
  <2>. QED BY <2>1, <1>3 DEF Says
<1>6. Says(back, w, n + k)
  <2>1. ASSUME NEW i \in 1 .. Len(s) - k PROVE back[i] = w[(n + k) + i]
    <3>1. k + i \in 1 .. Len(s) /\ (n + k) + i = n + (k + i)
      BY <1>1
    <3>. QED BY <3>1, <1>4 DEF Says
  <2>. QED BY <2>1, <1>4 DEF Says
<1>. QED BY <1>1, <1>3, <1>4, <1>5, <1>6 DEF k, front, back, Take, Drop

\* A register of bytes that are sent is one, and the bytes are bytes.
LEMMA RegisterType ==
  ASSUME NEW f \in {"client", "server"}, NEW b \in Nat, NEW k \in Nat,
         b + k <= Length + Writes
  PROVE  /\ Register(f, b, k) \in Registers
         /\ Encrypter(f, b, k) \in Ciphers /\ Decrypter(f, b, k) \in Ciphers
<1>1. Length \in Nat /\ Writes \in Nat /\ BlockSize \in Nat \ {0}
  BY BoundsAssumption
<1> DEFINE Names == {"secret", "client", "server", "noise"}
           Places == 0 .. Length + Writes + BlockSize
<1>2. ASSUME NEW j \in 1 .. BlockSize
      PROVE  (IF k + j <= BlockSize THEN <<"secret", k + j, FALSE>>
              ELSE <<f, b + k + j - BlockSize, FALSE>>) \in Names \X Places \X BOOLEAN
  <2>1. CASE k + j <= BlockSize
    <3>1. k + j \in Places
      BY <1>1, <2>1
    <3> HIDE DEF Places
    <3>. QED BY <2>1, <3>1
  <2>2. CASE ~(k + j <= BlockSize)
    <3>1. b + k + j - BlockSize \in Places
      BY <1>1, <2>2
    <3>2. f \in Names
      OBVIOUS
    <3> HIDE DEF Places, Names
    <3>. QED BY <2>2, <3>1, <3>2
  <2>. QED BY <2>1, <2>2
<1>3. Register(f, b, k) \in Registers
  BY <1>2 DEF Register, Registers
<1>. QED BY <1>3 DEF InStep, Encrypter, Decrypter, Ciphers

\* The bytes of an end, as many as it sends, are bytes of it.
LEMMA BytesType ==
  ASSUME NEW f \in {"client", "server"}, NEW b \in Nat, NEW n \in Nat, NEW m \in Nat,
         n + m <= Length + Writes
  PROVE  /\ Within(Clear(f), n, m, Bytes(f))
         /\ Within(Wire(f, b), n, m, Bytes(f))
<1>1. Length \in Nat /\ Writes \in Nat
  BY BoundsAssumption
<1>2. ASSUME NEW i \in 1 .. m
      PROVE  Clear(f)[n + i] \in Bytes(f) /\ Wire(f, b)[n + i] \in Bytes(f)
  <2> DEFINE p == n + i
  <2>1. p \in Nat /\ p \in 0 .. Length + Writes
    BY <1>1
  <2> HIDE DEF p
  <2>2. Byte(f, p) \in Bytes(f)
    BY <2>1 DEF Byte, Bytes
  <2>3. CASE p <= b
    BY <2>1, <2>2, <2>3 DEF Clear, Wire, p
  <2>4. CASE ~(p <= b)
    <3>1. p - b - 1 \in Nat /\ b + (p - b - 1) <= Length + Writes
      BY <1>1, <2>1, <2>4
    <3>2. Register(f, b, p - b - 1) \in Registers
      BY <3>1, RegisterType
    <3>3. [from |-> f, at |-> p, under |-> Register(f, b, p - b - 1)] \in Bytes(f)
      BY <3>2, <2>1 DEF Bytes
    <3>. QED BY <2>1, <2>2, <2>4, <3>3 DEF Clear, Wire, p
  <2>. QED BY <2>3, <2>4
<1>. QED BY <1>2 DEF Within

\* What is in the clear goes onto the wire.
LEMMA Enciphers ==
  ASSUME NEW f \in {"client", "server"}, NEW b \in Nat, NEW k \in Nat, NEW src,
         Len(src) \in Nat, b + k + Len(src) <= Length + Writes, Says(src, Clear(f), b + k)
  PROVE  LET made == XORKeyStream(Encrypter(f, b, k), src)
         IN  /\ made.cipher = Encrypter(f, b, k + Len(src))
             /\ made.dst \in Seq(Bytes(f)) /\ Len(made.dst) = Len(src)
             /\ Says(made.dst, Wire(f, b), b + k)
<1> DEFINE c == Encrypter(f, b, k)
<1>1. c.decrypt = FALSE /\ c.decrypt \in BOOLEAN
  BY DEF Encrypter, InStep
<1>2. \A i : InStep(f, b, i, c.decrypt) = Encrypter(f, b, i)
  BY DEF Encrypter, InStep
<1> HIDE DEF c
<1>3. Given(f, b, c.decrypt) = Clear(f) /\ Made(f, b, c.decrypt) = Wire(f, b)
  BY <1>1, Zenon DEF Given, Made
<1>4. Within(Wire(f, b), b + k, Len(src), Bytes(f))
  BY BytesType
<1>5. c = InStep(f, b, k, c.decrypt)
  BY <1>2 DEF c
<1>6. Says(src, Given(f, b, c.decrypt), b + k)
      /\ Within(Made(f, b, c.decrypt), b + k, Len(src), Bytes(f))
  BY <1>3, <1>4
<1>7. Through(XORKeyStream(c, src), c, f, b, k, Len(src), Bytes(f))
  BY <1>1, <1>5, <1>6, RunThrough
<1>. QED BY <1>2, <1>3, <1>7 DEF Through, c

\* What comes off the wire is put back into the clear.
LEMMA Deciphers ==
  ASSUME NEW f \in {"client", "server"}, NEW b \in Nat, NEW k \in Nat, NEW src,
         Len(src) \in Nat, b + k + Len(src) <= Length + Writes, Says(src, Wire(f, b), b + k)
  PROVE  LET made == XORKeyStream(Decrypter(f, b, k), src)
         IN  /\ made.cipher = Decrypter(f, b, k + Len(src))
             /\ made.dst \in Seq(Bytes(f)) /\ Len(made.dst) = Len(src)
             /\ Says(made.dst, Clear(f), b + k)
<1> DEFINE c == Decrypter(f, b, k)
<1>1. c.decrypt = TRUE /\ c.decrypt \in BOOLEAN
  BY DEF Decrypter, InStep
<1>2. \A i : InStep(f, b, i, c.decrypt) = Decrypter(f, b, i)
  BY DEF Decrypter, InStep
<1> HIDE DEF c
<1>3. Given(f, b, c.decrypt) = Wire(f, b) /\ Made(f, b, c.decrypt) = Clear(f)
  BY <1>1, Zenon DEF Given, Made
<1>4. Within(Clear(f), b + k, Len(src), Bytes(f))
  BY BytesType
<1>5. c = InStep(f, b, k, c.decrypt)
  BY <1>2 DEF c
<1>6. Says(src, Given(f, b, c.decrypt), b + k)
      /\ Within(Made(f, b, c.decrypt), b + k, Len(src), Bytes(f))
  BY <1>3, <1>4
<1>7. Through(XORKeyStream(c, src), c, f, b, k, Len(src), Bytes(f))
  BY <1>1, <1>5, <1>6, RunThrough
<1>. QED BY <1>2, <1>3, <1>7 DEF Through, c

\* New ciphers are in step from the byte they go on after.
LEMMA NewCiphers ==
  ASSUME NEW f, NEW b \in Nat
  PROVE  newCfb8(FALSE) = Encrypter(f, b, 0) /\ newCfb8(TRUE) = Decrypter(f, b, 0)
<1>1. \A d : newCfb8(d) = InStep(f, b, 0, d)
  BY NewInStep, Zenon
<1>. QED BY <1>1, Zenon DEF Encrypter, Decrypter

\* A cipher is something, so that Deciphered uses it.
LEMMA SomeCipher ==
  ASSUME NEW f, NEW b \in Nat, NEW k \in Nat, NEW chunk
  PROVE  /\ Deciphered(Encrypter(f, b, k), chunk) = XORKeyStream(Encrypter(f, b, k), chunk)
         /\ Deciphered(Decrypter(f, b, k), chunk) = XORKeyStream(Decrypter(f, b, k), chunk)
         /\ Deciphered(Nothing, chunk) = [cipher |-> Nothing, dst |-> chunk]
<1>1. \A r, d : [register |-> r, decrypt |-> d] # <<>>
  OBVIOUS
<1>2. Encrypter(f, b, k) # Nothing /\ Decrypter(f, b, k) # Nothing
  BY <1>1 DEF Encrypter, Decrypter, InStep, Nothing
<1>. QED BY <1>2 DEF Deciphered

\* What the client puts on the wire is that.
LEMMA WiresAre ==
  ASSUME NEW c \in Cuts
  PROVE  /\ Wires[c] \in Seq(Bytes("client")) /\ Len(Wires[c]) = Length
         /\ Says(Wires[c], Wire("client", c), 0)
<1> DEFINE src == [k \in 1 .. Length - c |-> Byte("client", c + k)]
           all == Wires[c]
<1>1. Length \in Nat /\ Writes \in Nat /\ c \in Nat /\ c <= Length /\ Length - c \in Nat
  BY CutsAssumption, BoundsAssumption
<1>2. Len(src) = Length - c
  <2>1. src \in [1 .. Length - c -> {src[k] : k \in 1 .. Length - c}]
    OBVIOUS
  <2> HIDE DEF src
  <2>2. src \in Seq({src[k] : k \in 1 .. Length - c}) /\ DOMAIN src = 1 .. Length - c
    BY <2>1, <1>1, SeqDef
  <2>. QED BY <2>2, <1>1, LenProperties
<1>3. Says(src, Clear("client"), c + 0)
  <2>1. ASSUME NEW k \in 1 .. Length - c PROVE src[k] = Clear("client")[(c + 0) + k]
    <3>1. c + k \in Nat /\ (c + 0) + k = c + k
      BY <1>1
    <3>. QED BY <3>1 DEF Clear
  <2> HIDE DEF src
  <2>. QED BY <2>1, <1>2 DEF Says
<1> DEFINE made == XORKeyStream(Encrypter("client", c, 0), src)
<1>4. all = [i \in 1 .. Length |-> IF i <= c THEN Byte("client", i) ELSE made.dst[i - c]]
  <2>1. newCfb8(FALSE) = Encrypter("client", c, 0)
    BY <1>1, NewCiphers
  <2>. QED BY <2>1, Zenon DEF Wires
<1> HIDE DEF src
<1>5. Len(made.dst) = Length - c /\ Says(made.dst, Wire("client", c), c + 0)
  <2>1. c + 0 + Len(src) <= Length + Writes /\ Len(src) \in Nat
    BY <1>1, <1>2
  <2>. QED BY <2>1, <1>1, <1>2, <1>3, Enciphers
<1> HIDE DEF made, all
<1>6. ASSUME NEW i \in 1 .. Length PROVE all[i] = Wire("client", c)[0 + i]
  <2>0. i \in Nat /\ 0 + i = i
    BY <1>1
  <2>1. CASE i <= c
    BY <2>0, <2>1, <1>4 DEF Wire
  <2>2. CASE ~(i <= c)
    <3> DEFINE j == i - c
    <3>1. j \in 1 .. Length - c /\ (c + 0) + j = i
      BY <2>2, <1>1
    <3>2. all[i] = made.dst[j]
      BY <2>2, <1>4
    <3> HIDE DEF j
    <3>3. made.dst[j] = Wire("client", c)[(c + 0) + j]
      BY <3>1, <1>5 DEF Says
    <3>. QED BY <3>1, <3>2, <3>3, <2>0
  <2>. QED BY <2>1, <2>2
<1>7. Within(Wire("client", c), 0, Length, Bytes("client"))
  BY <1>1, BytesType
<1>8. all \in [1 .. Length -> Bytes("client")]
  <2>1. \A i \in 1 .. Length : all[i] \in Bytes("client")
    BY <1>6, <1>7 DEF Within
  <2>. QED BY <2>1, <1>4
<1>9. all \in Seq(Bytes("client")) /\ Len(all) = Length
  <2>1. all \in Seq(Bytes("client")) /\ DOMAIN all = 1 .. Length
    BY <1>8, <1>1, SeqDef
  <2>. QED BY <2>1, <1>1, LenProperties
<1>. QED BY <1>6, <1>9 DEF Says, all

\* Up to the byte the cipher goes on after, the wire is in the clear.
LEMMA PlainBefore ==
  ASSUME NEW f, NEW b \in Nat, NEW n \in Nat, NEW s, Len(s) \in Nat, n + Len(s) <= b
  PROVE  Says(s, Wire(f, b), n) <=> Says(s, Clear(f), n)
<1>1. ASSUME NEW i \in 1 .. Len(s) PROVE Wire(f, b)[n + i] = Clear(f)[n + i]
  <2>1. n + i \in Nat /\ n + i <= b
    OBVIOUS
  <2>. QED BY <2>1 DEF Wire, Clear
<1>. QED BY <1>1 DEF Says

-------------------------------------------------------------------------------
(* The read half                                                              *)

\* What the constants and the types say, in numbers.
LEMMA ReadNumbers ==
  ASSUME ReadType
  PROVE  /\ Length \in Nat /\ Writes \in Nat /\ cut \in Nat /\ cut <= Length
         /\ BufferSize \in Nat \ {0} /\ ReadSize \in Nat \ {0}
         /\ sent \in Nat /\ taken \in Nat /\ want \in Nat
         /\ reader \in Seq(Bytes("client")) /\ Len(reader) \in Nat
         /\ preEncrypted \in Seq(Bytes("client")) /\ Len(preEncrypted) \in Nat
         /\ read \in Seq(Bytes("client")) /\ Len(read) \in Nat
<1>1. /\ Length \in Nat /\ Writes \in Nat /\ BufferSize \in Nat \ {0} /\ ReadSize \in Nat \ {0}
      /\ cut \in Cuts /\ Cuts \subseteq 0 .. Length
      /\ {sent, taken, want} \subseteq Nat
      /\ {reader, preEncrypted, read} \subseteq Seq(Bytes("client"))
  BY CutsAssumption, BoundsAssumption DEF ReadType
<1>. QED BY <1>1

\* One read off the socket is the next of what is on the wire.
LEMMA SocketGives ==
  ASSUME ReadType, NEW size \in Nat
  PROVE  /\ Socket(size) \in Seq(Bytes("client"))
         /\ Len(Socket(size)) \in Nat /\ Len(Socket(size)) <= size
         /\ taken + Len(Socket(size)) <= sent
         /\ Says(Socket(size), Wire("client", cut), taken)
<1> DEFINE all == Wires[cut]
           last == Smaller(taken + size, sent)
           chunk == SubSeq(all, taken + 1, last)
<1>1. taken \in Nat /\ sent \in Nat /\ Length \in Nat /\ taken <= sent /\ sent <= Length
      /\ cut \in Cuts
  BY ReadNumbers DEF ReadType
<1>2. /\ all \in Seq(Bytes("client")) /\ Len(all) = Length
      /\ Says(all, Wire("client", cut), 0)
  BY <1>1, WiresAre
<1> HIDE DEF all
<1>3. last \in Nat /\ taken <= last /\ last <= sent /\ last - taken <= size
  BY <1>1 DEF Smaller
<1> HIDE DEF last
<1>4. /\ chunk \in Seq(Bytes("client")) /\ Len(chunk) = last - taken
      /\ \A i \in 1 .. last - taken : chunk[i] = all[taken + i]
  <2>1. \A i \in taken + 1 .. last : all[i] \in Bytes("client")
    BY <1>1, <1>2, <1>3
  <2>. QED BY <1>1, <1>2, <1>3, <2>1, SubSeqProperties
<1> HIDE DEF chunk
<1>5. Says(chunk, Wire("client", cut), taken)
  <2>1. ASSUME NEW i \in 1 .. last - taken PROVE chunk[i] = Wire("client", cut)[taken + i]
    <3>1. taken + i \in 1 .. Length /\ 0 + (taken + i) = taken + i
      BY <1>1, <1>3
    <3>. QED BY <3>1, <1>2, <1>4 DEF Says
  <2>. QED BY <2>1, <1>4 DEF Says
<1>. QED BY <1>1, <1>3, <1>4, <1>5 DEF chunk, last, all, Socket

\* Where the decrypter is once n bytes were taken.
DecrypterAt(n) == IF encrypted THEN Decrypter("client", cut, n - cut) ELSE Nothing

\* The decrypter puts that into the clear, once it is on, and stays in step.
LEMMA SocketDeciphered ==
  ASSUME ReadInv, NEW size \in Nat
  PROVE  LET chunk == Socket(size)
             made == Deciphered(decrypter, chunk)
         IN  /\ made.dst \in Seq(Bytes("client")) /\ Len(made.dst) = Len(chunk)
             /\ Says(made.dst, Ahead, taken)
             /\ made.cipher = DecrypterAt(taken + Len(chunk))
<1> DEFINE chunk == Socket(size)
<1>1. /\ chunk \in Seq(Bytes("client")) /\ Len(chunk) \in Nat
      /\ taken + Len(chunk) <= sent
      /\ Says(chunk, Wire("client", cut), taken)
  BY SocketGives DEF ReadInv
<1>2. /\ Length \in Nat /\ Writes \in Nat /\ cut \in Nat /\ taken \in Nat /\ sent \in Nat
      /\ sent <= Length /\ encrypted \in BOOLEAN
  BY ReadNumbers DEF ReadInv, ReadType
<1> HIDE DEF chunk
<1>3. CASE encrypted
  <2> DEFINE k == taken - cut
             n == taken + Len(chunk)
  <2>1. cut <= taken /\ decrypter = Decrypter("client", cut, k)
    BY <1>3, ReadNumbers DEF ReadInv, DecrypterInStep, InPlace
  <2>2. k \in Nat /\ cut + k = taken /\ k + Len(chunk) = n - cut
        /\ cut + k + Len(chunk) <= Length + Writes
    BY <2>1, <1>1, <1>2
  <2> HIDE DEF k, n
  <2>3. Deciphered(decrypter, chunk) = XORKeyStream(Decrypter("client", cut, k), chunk)
    BY <2>1, <2>2, <1>2, SomeCipher
  <2>4. LET made == XORKeyStream(Decrypter("client", cut, k), chunk)
        IN  /\ made.cipher = Decrypter("client", cut, k + Len(chunk))
            /\ made.dst \in Seq(Bytes("client")) /\ Len(made.dst) = Len(chunk)
            /\ Says(made.dst, Clear("client"), cut + k)
    BY <2>2, <1>1, <1>2, Deciphers
  <2>5. Ahead = Clear("client") /\ DecrypterAt(n) = Decrypter("client", cut, n - cut)
    BY <1>3 DEF Ahead, DecrypterAt
  <2>. QED BY <2>2, <2>3, <2>4, <2>5 DEF chunk, n
<1>4. CASE ~encrypted
  <2>1. decrypter = Nothing /\ Ahead = Wire("client", cut)
        /\ DecrypterAt(taken + Len(chunk)) = Nothing
    BY <1>4 DEF ReadInv, DecrypterInStep, Ahead, DecrypterAt
  <2>2. Deciphered(decrypter, chunk) = [cipher |-> Nothing, dst |-> chunk]
    BY <2>1, <1>2, SomeCipher
  <2>. QED BY <2>1, <2>2, <1>1 DEF chunk
<1>. QED BY <1>2, <1>3, <1>4

\* What a read under the buffered reader finds comes next, and what it leaves
\* behind the reader comes after that.
NextFound(found, size) ==
  /\ found \in Seq(Bytes("client")) /\ Len(found) \in Nat /\ Len(found) <= size
  /\ Says(found, Ahead, Len(read))
  /\ preEncrypted' \in Seq(Bytes("client")) /\ Len(preEncrypted') \in Nat
  /\ Len(preEncrypted') <= BufferSize
  /\ Says(preEncrypted', Ahead, Len(read) + Len(found))
  /\ Len(read) + Len(found) + Len(preEncrypted') = taken'
  /\ taken' \in Nat /\ taken' <= sent
  /\ decrypter' = DecrypterAt(taken')
  /\ ~encrypted => preEncrypted' = <<>>

\* Whether it reads preEncrypted or the socket.
LEMMA UnderlyingFinds ==
  ASSUME ReadInv, reader = <<>>, NEW size \in Nat, Underlying(size)
  PROVE  NextFound(Found(size), size)
<1>1. /\ taken \in Nat /\ sent \in Nat /\ taken <= sent /\ Len(read) \in Nat
      /\ preEncrypted \in Seq(Bytes("client")) /\ Len(preEncrypted) \in Nat
      /\ Len(preEncrypted) <= BufferSize /\ BufferSize \in Nat
  BY ReadNumbers DEF ReadInv, ReadType
<1>2. /\ Len(reader) = 0 /\ Len(read) + Len(preEncrypted) = taken
      /\ Says(preEncrypted, Ahead, Len(read))
  <2>1. Len(reader) = 0
    OBVIOUS
  <2>2. /\ Len(read) + Len(reader) + Len(preEncrypted) = taken
        /\ Says(preEncrypted, Ahead, Len(read) + Len(reader))
    BY DEF ReadInv, InPlace
  <2>3. Len(read) + Len(reader) = Len(read)
    BY <2>1, <1>1
  <2>. QED BY <2>1, <2>2, <2>3
<1>3. CASE preEncrypted # <<>>
  <2> DEFINE found == Take(preEncrypted, size)
             left == Drop(preEncrypted, size)
             k == Smaller(size, Len(preEncrypted))
  <2>1. Found(size) = found /\ preEncrypted' = left /\ taken' = taken /\ decrypter' = decrypter
    BY <1>3 DEF Found, Underlying
  <2>2. encrypted /\ decrypter = DecrypterAt(taken)
    BY <1>3 DEF ReadInv, DecrypterInStep, DecrypterAt
  <2>3. /\ found \in Seq(Bytes("client")) /\ left \in Seq(Bytes("client"))
        /\ Len(found) = k /\ Len(left) = Len(preEncrypted) - k /\ k \in Nat
        /\ Says(found, Ahead, Len(read)) /\ Says(left, Ahead, Len(read) + k)
    BY <1>1, <1>2, SaysCut
  <2>4. k <= size /\ k <= Len(preEncrypted)
    BY <1>1 DEF Smaller
  <2> HIDE DEF found, left, k
  <2>5. /\ Len(left) \in Nat /\ Len(left) <= BufferSize
        /\ Len(read) + Len(found) + Len(left) = taken
    <3>1. /\ Len(found) = k /\ Len(left) = Len(preEncrypted) - k /\ k \in Nat
          /\ Len(read) + Len(preEncrypted) = taken
      BY <2>3, <1>2
    <3>2. /\ Len(preEncrypted) \in Nat /\ Len(preEncrypted) <= BufferSize
          /\ BufferSize \in Nat /\ Len(read) \in Nat
      BY <1>1
    <3>. QED BY <2>4, <3>1, <3>2
  <2>. QED BY <2>1, <2>2, <2>3, <2>4, <2>5, <1>1 DEF NextFound
<1>4. CASE preEncrypted = <<>>
  <2> DEFINE chunk == Socket(size)
             found == Deciphered(decrypter, chunk).dst
  <2>1. /\ Found(size) = found /\ preEncrypted' = preEncrypted
        /\ taken' = taken + Len(chunk) /\ decrypter' = Deciphered(decrypter, chunk).cipher
    BY <1>4 DEF Found, Underlying
  <2>2. Len(preEncrypted) = 0 /\ Len(read) = taken
    <3>1. Len(preEncrypted) = 0
      BY <1>4
    <3>. QED BY <3>1, <1>1, <1>2
  <2>3. Len(chunk) \in Nat /\ Len(chunk) <= size /\ taken + Len(chunk) <= sent
    BY SocketGives DEF ReadInv
  <2>4. /\ found \in Seq(Bytes("client")) /\ Len(found) = Len(chunk)
        /\ Says(found, Ahead, taken)
        /\ Deciphered(decrypter, chunk).cipher = DecrypterAt(taken + Len(chunk))
    BY SocketDeciphered
  <2> HIDE DEF found, chunk
  <2>5. Says(preEncrypted, Ahead, Len(read) + Len(found))
    BY <2>2 DEF Says
  <2>6. Len(read) + Len(found) + Len(preEncrypted) = taken' /\ taken' \in Nat
    BY <2>1, <2>2, <2>3, <2>4, <1>1
  <2>. QED BY <2>1, <2>2, <2>3, <2>4, <2>5, <2>6, <1>1, <1>4 DEF NextFound
<1>. QED BY <1>3, <1>4

\* Bytes that may be handed up are in the clear.
LEMMA HandedUpInClear ==
  ASSUME ReadInv, NEW s, NEW n \in Nat, Len(s) \in Nat, n + Len(s) <= Length,
         Says(s, Ahead, n), encrypted \/ cut = Length \/ n + Len(s) <= cut
  PROVE  Says(s, Clear("client"), n)
<1>1. CASE encrypted
  BY <1>1 DEF Ahead
<1>2. CASE ~encrypted
  <2>1. Says(s, Wire("client", cut), n)
    BY <1>2 DEF Ahead
  <2>2. cut \in Nat /\ n + Len(s) <= cut
    BY <1>2, ReadNumbers DEF ReadInv
  <2>. QED BY <2>1, <2>2, PlainBefore
<1>. QED BY <1>1, <1>2

\* got has been handed up out of the reader or from under it, and what it left
\* follows on.
Handed(got) ==
  /\ got \in Seq(Bytes("client")) /\ Len(got) \in Nat /\ Len(got) <= want
  /\ Says(got, Ahead, Len(read))
  /\ reader' \in Seq(Bytes("client")) /\ Len(reader') \in Nat /\ Len(reader') <= BufferSize
  /\ Says(reader', Ahead, Len(read) + Len(got))
  /\ preEncrypted' \in Seq(Bytes("client")) /\ Len(preEncrypted') \in Nat
  /\ Len(preEncrypted') <= BufferSize
  /\ Says(preEncrypted', Ahead, Len(read) + Len(got) + Len(reader'))
  /\ Len(read) + Len(got) + Len(reader') + Len(preEncrypted') = taken'
  /\ taken' \in Nat /\ taken' <= sent
  /\ decrypter' = DecrypterAt(taken')
  /\ ~encrypted => preEncrypted' = <<>>

\* Read hands up something, in each of its ways.
LEMMA ReadHands ==
  ASSUME ReadInv, Read
  PROVE  \E got : Handed(got) /\ read' = read \o got
<1>1. /\ taken \in Nat /\ sent \in Nat /\ taken <= sent /\ Len(read) \in Nat
      /\ reader \in Seq(Bytes("client")) /\ Len(reader) \in Nat /\ Len(reader) <= BufferSize
      /\ preEncrypted \in Seq(Bytes("client")) /\ Len(preEncrypted) \in Nat
      /\ Len(preEncrypted) <= BufferSize /\ BufferSize \in Nat
      /\ want \in Nat /\ want > 0
      /\ Len(read) + Len(reader) + Len(preEncrypted) = taken
      /\ Says(reader, Ahead, Len(read))
      /\ Says(preEncrypted, Ahead, Len(read) + Len(reader))
  BY ReadNumbers DEF ReadInv, ReadType, InPlace, Read
<1>2. CASE reader # <<>>
  <2> DEFINE got == Take(reader, want)
             left == Drop(reader, want)
             k == Smaller(want, Len(reader))
  <2>1. read' = read \o got /\ reader' = left
        /\ UNCHANGED <<taken, preEncrypted, decrypter>>
    BY <1>2 DEF Read
  <2>2. /\ got \in Seq(Bytes("client")) /\ left \in Seq(Bytes("client"))
        /\ Len(got) = k /\ Len(left) = Len(reader) - k /\ k \in Nat
        /\ Says(got, Ahead, Len(read)) /\ Says(left, Ahead, Len(read) + k)
    BY <1>1, SaysCut
  <2>3. k <= want /\ k <= Len(reader)
    BY <1>1 DEF Smaller
  <2> HIDE DEF got, left, k
  <2>4. /\ Len(left) \in Nat /\ Len(left) <= BufferSize
        /\ Len(read) + Len(got) + Len(left) = Len(read) + Len(reader)
    BY <2>2, <2>3, <1>1
  <2>5. Len(read) + Len(got) + Len(left) + Len(preEncrypted) = taken
    BY <2>4, <1>1
  <2>6. decrypter = DecrypterAt(taken) /\ (~encrypted => preEncrypted = <<>>)
    BY DEF ReadInv, DecrypterInStep, DecrypterAt
  <2>7. Says(preEncrypted, Ahead, Len(read) + Len(got) + Len(left))
    BY <2>4, <1>1
  <2>8. Handed(got)
    BY <2>1, <2>2, <2>3, <2>4, <2>5, <2>6, <2>7, <1>1 DEF Handed
  <2>. QED BY <2>1, <2>8
<1>3. CASE reader = <<>> /\ want >= BufferSize /\ Underlying(want)
           /\ read' = read \o Found(want) /\ UNCHANGED reader
  <2> DEFINE got == Found(want)
  <2>1. NextFound(got, want)
    BY <1>1, <1>3, UnderlyingFinds
  <2> HIDE DEF got
  <2>2. reader' = <<>> /\ Len(reader') = 0 /\ reader' \in Seq(Bytes("client"))
    BY <1>3
  <2>3. Len(got) \in Nat
    BY <2>1 DEF NextFound
  <2>4. Len(read) + Len(got) + Len(reader') = Len(read) + Len(got)
    BY <2>2, <2>3, <1>1
  <2>5. Says(reader', Ahead, Len(read) + Len(got))
    BY <2>2 DEF Says
  <2>6. Handed(got)
    BY <2>1, <2>2, <2>4, <2>5, <1>1 DEF Handed, NextFound
  <2>. QED BY <2>6, <1>3 DEF got
<1>4. CASE reader = <<>> /\ want < BufferSize /\ Underlying(BufferSize)
           /\ read' = read \o Take(Found(BufferSize), want)
           /\ reader' = Drop(Found(BufferSize), want)
  <2> DEFINE found == Found(BufferSize)
             got == Take(found, want)
             left == Drop(found, want)
             k == Smaller(want, Len(found))
  <2>1. NextFound(found, BufferSize)
    BY <1>1, <1>4, UnderlyingFinds
  <2> HIDE DEF found
  <2>2. found \in Seq(Bytes("client")) /\ Len(found) \in Nat /\ Len(found) <= BufferSize
        /\ Says(found, Ahead, Len(read))
    BY <2>1 DEF NextFound
  <2>3. /\ got \in Seq(Bytes("client")) /\ left \in Seq(Bytes("client"))
        /\ Len(got) = k /\ Len(left) = Len(found) - k /\ k \in Nat
        /\ Says(got, Ahead, Len(read)) /\ Says(left, Ahead, Len(read) + k)
    BY <1>1, <2>2, SaysCut
  <2>4. k <= want /\ k <= Len(found)
    BY <1>1, <2>2 DEF Smaller
  <2> HIDE DEF got, left, k
  <2>5. /\ Len(left) \in Nat /\ Len(left) <= BufferSize
        /\ Len(read) + Len(got) + Len(left) = Len(read) + Len(found)
    BY <2>2, <2>3, <2>4, <1>1
  <2>6. reader' = left /\ read' = read \o got
    BY <1>4 DEF found, got, left
  <2>7. Handed(got)
    BY <2>1, <2>2, <2>3, <2>4, <2>5, <2>6, <1>1 DEF Handed, NextFound
  <2>. QED BY <2>6, <2>7
<1>. QED BY <1>2, <1>3, <1>4 DEF Read

\* What is handed up, in order, is what the invariant says of the read half.
LEMMA HandedKeeps ==
  ASSUME ReadInv, NEW got, Handed(got), read' = read \o got,
         want' = want - (Len(read') - Len(read)),
         ~takenOver, UNCHANGED <<cut, encrypted, sent, takenOver>>
  PROVE  ReadInv'
<1>1. /\ sent \in Nat /\ sent <= Length /\ Length \in Nat /\ cut \in Nat /\ cut <= Length
      /\ want \in Nat /\ want <= Length /\ Len(read) \in Nat /\ read \in Seq(Bytes("client"))
      /\ Says(read, Clear("client"), 0)
  BY ReadNumbers DEF ReadInv, ReadType, InPlace
<1>2. /\ got \in Seq(Bytes("client")) /\ Len(got) \in Nat /\ Len(got) <= want
      /\ Says(got, Ahead, Len(read))
      /\ Len(read) + Len(got) <= taken' /\ taken' \in Nat /\ taken' <= sent
  BY <1>1 DEF Handed
<1>3. Len(read) + Len(got) <= Length /\ 0 + Len(read) = Len(read)
  BY <1>1, <1>2
<1>4. encrypted \/ cut = Length \/ Len(read) + Len(got) <= cut
  <2>1. encrypted \/ ~(cut < Length) \/ Len(read) + want <= cut
    BY DEF ReadInv, DecrypterInStep
  <2>. QED BY <2>1, <1>1, <1>2
<1>5. Says(got, Clear("client"), 0 + Len(read))
  BY <1>1, <1>2, <1>3, <1>4, HandedUpInClear
<1>6. /\ read' \in Seq(Bytes("client")) /\ Len(read') = Len(read) + Len(got)
      /\ Says(read', Clear("client"), 0)
  BY <1>1, <1>2, <1>5, SaysJoin
<1>7. want' = want - Len(got) /\ want' \in Nat /\ want' <= Length
  BY <1>1, <1>2, <1>6
<1>8. Ahead' = Ahead
  BY DEF Ahead
<1>9. ReadType'
  BY <1>2, <1>6, <1>7 DEF ReadInv, ReadType, Handed
<1>10. InPlace'
  BY <1>6, <1>8 DEF InPlace, Handed
<1>11. DecrypterInStep'
  <2>1. CASE encrypted
    <3>1. cut <= Len(read')
      BY <2>1, <1>1, <1>2, <1>6 DEF ReadInv, DecrypterInStep
    <3>2. decrypter' = Decrypter("client", cut', taken' - cut')
      BY <2>1 DEF Handed, DecrypterAt
    <3>. QED BY <2>1, <3>1, <3>2 DEF DecrypterInStep
  <2>2. CASE ~encrypted
    <3>1. decrypter' = Nothing /\ preEncrypted' = <<>>
      BY <2>2 DEF Handed, DecrypterAt
    <3>2. cut < Length => Len(read) + want <= cut
      BY <2>2 DEF ReadInv, DecrypterInStep
    <3>3. Len(read') + want' = Len(read) + want
      BY <1>1, <1>2, <1>6, <1>7
    <3>. QED BY <2>2, <3>1, <3>2, <3>3 DEF DecrypterInStep
  <2>. QED BY <2>1, <2>2
<1>12. NothingBehind'
  BY DEF NothingBehind
<1>. QED BY <1>9, <1>10, <1>11, <1>12 DEF ReadInv

\* Putting the cipher on: what the reader had buffered is put into the clear, in
\* front of what the same cipher will make of the socket.
LEMMA EnableKeepsRead ==
  ASSUME ReadInv, EnableEncryption
  PROVE  ReadInv'
<1>1. /\ taken \in Nat /\ taken <= sent /\ sent <= Length /\ sent \in Nat /\ Length \in Nat
      /\ Writes \in Nat /\ BufferSize \in Nat
      /\ cut \in Nat /\ reader \in Seq(Bytes("client")) /\ Len(reader) \in Nat
      /\ Len(reader) <= BufferSize
      /\ Len(read) \in Nat /\ Says(read, Clear("client"), 0)
  BY ReadNumbers DEF ReadInv, ReadType, InPlace
<1>2. /\ ~encrypted /\ ~takenOver /\ want = 0 /\ Len(read) = cut
      /\ decrypter' = XORKeyStream(newCfb8(TRUE), reader).cipher
      /\ preEncrypted' = XORKeyStream(newCfb8(TRUE), reader).dst
      /\ reader' = <<>> /\ encrypted'
      /\ UNCHANGED <<cut, sent, taken, want, read, takenOver>>
  BY Zenon DEF EnableEncryption
<1>3. preEncrypted = <<>> /\ Len(preEncrypted) = 0
  BY <1>2 DEF ReadInv, DecrypterInStep
<1>4. Len(reader) = taken - cut /\ cut <= taken
  <2>1. Len(read) + Len(reader) + Len(preEncrypted) = taken
    BY DEF ReadInv, InPlace
  <2>. QED BY <2>1, <1>1, <1>2, <1>3
<1>5. Says(reader, Wire("client", cut), cut + 0)
  <2>1. Says(reader, Ahead, Len(read)) /\ Ahead = Wire("client", cut)
    BY <1>2 DEF ReadInv, InPlace, Ahead
  <2>2. cut + 0 = Len(read)
    BY <1>1, <1>2
  <2>. QED BY <2>1, <2>2
<1>6. newCfb8(TRUE) = Decrypter("client", cut, 0)
  BY <1>1, NewCiphers
<1>7. /\ decrypter' = Decrypter("client", cut, 0 + Len(reader))
      /\ preEncrypted' \in Seq(Bytes("client")) /\ Len(preEncrypted') = Len(reader)
      /\ Says(preEncrypted', Clear("client"), cut + 0)
  <2>1. cut + 0 + Len(reader) <= Length + Writes
    BY <1>1, <1>4
  <2>2. LET made == XORKeyStream(Decrypter("client", cut, 0), reader)
        IN  /\ made.cipher = Decrypter("client", cut, 0 + Len(reader))
            /\ made.dst \in Seq(Bytes("client")) /\ Len(made.dst) = Len(reader)
            /\ Says(made.dst, Clear("client"), cut + 0)
    BY <1>1, <1>5, <2>1, Deciphers
  <2>. QED BY <2>2, <1>2, <1>6, Zenon
<1>8. Len(reader') = 0 /\ reader' \in Seq(Bytes("client")) /\ Says(reader', Ahead', Len(read'))
  BY <1>2 DEF Says
<1>9. ReadType'
  <2>1. encrypted' \in BOOLEAN
    BY Zenon DEF EnableEncryption
  <2>2. cut \in Cuts /\ takenOver \in BOOLEAN /\ want <= Length /\ want \in Nat
        /\ read \in Seq(Bytes("client"))
    BY ReadNumbers DEF ReadInv, ReadType
  <2>3. Len(reader') <= BufferSize /\ Len(preEncrypted') <= BufferSize
    BY <1>1, <1>7, <1>8
  <2>4. {reader', preEncrypted', read'} \subseteq Seq(Bytes("client"))
    BY <2>2, <1>2, <1>7, <1>8
  <2>5. /\ cut' \in Cuts /\ takenOver' \in BOOLEAN /\ {sent', taken', want'} \subseteq Nat
        /\ taken' <= sent' /\ sent' <= Length /\ want' <= Length
    BY <2>2, <1>1, <1>2
  <2>. QED BY <2>1, <2>3, <2>4, <2>5 DEF ReadType
<1>10. InPlace'
  <2>1. Ahead' = Clear("client")
    BY <1>2 DEF Ahead
  <2>2. /\ Len(read') = cut /\ Len(read') + Len(reader') = cut + 0
        /\ Len(read') + Len(reader') + Len(preEncrypted') = taken'
    <3>1. Len(read') = cut /\ taken' = taken
      BY <1>2
    <3>2. cut + (taken - cut) = taken /\ cut + 0 = cut
      BY <1>1
    <3>3. Len(preEncrypted') = taken - cut
      BY <1>4, <1>7
    <3>. QED BY <3>1, <3>2, <3>3, <1>8
  <2>3. Says(read', Clear("client"), 0)
    BY <1>1, <1>2
  <2>. QED BY <2>1, <2>2, <2>3, <1>7, <1>8 DEF InPlace
<1>11. DecrypterInStep'
  <2>1. 0 + Len(reader) = taken' - cut' /\ cut' = cut /\ cut' <= Len(read')
    BY <1>1, <1>2, <1>4
  <2>. QED BY <2>1, <1>2, <1>7 DEF DecrypterInStep
<1>12. NothingBehind'
  BY <1>2 DEF NothingBehind
<1>. QED BY <1>9, <1>10, <1>11, <1>12 DEF ReadInv

\* Giving the read half away: the reader's bytes and those behind it follow what
\* was handed up, and are in the clear.
LEMMA TakeoverKeeps ==
  ASSUME ReadInv, TakeoverRead
  PROVE  ReadInv'
<1>1. /\ taken \in Nat /\ sent \in Nat /\ taken <= sent /\ sent <= Length /\ Length \in Nat
      /\ cut \in Nat /\ cut <= Length
      /\ read \in Seq(Bytes("client")) /\ Len(read) \in Nat
      /\ reader \in Seq(Bytes("client")) /\ Len(reader) \in Nat
      /\ preEncrypted \in Seq(Bytes("client")) /\ Len(preEncrypted) \in Nat
  BY ReadNumbers DEF ReadInv, ReadType
<1>2. /\ Len(read) + Len(reader) + Len(preEncrypted) = taken
      /\ Says(read, Clear("client"), 0)
      /\ Says(reader, Ahead, Len(read))
      /\ Says(preEncrypted, Ahead, Len(read) + Len(reader))
  BY DEF ReadInv, InPlace
<1>3. /\ want = 0 /\ ~takenOver /\ (cut < Length => encrypted)
      /\ read' = read \o reader \o preEncrypted
      /\ reader' = <<>> /\ preEncrypted' = <<>> /\ takenOver' = TRUE
      /\ UNCHANGED <<cut, encrypted, sent, taken, decrypter, want>>
  BY DEF TakeoverRead
<1>4. encrypted \/ cut = Length
  BY <1>1, <1>3
<1>5. Says(reader, Clear("client"), Len(read))
      /\ Says(preEncrypted, Clear("client"), Len(read) + Len(reader))
  <2>1. /\ Len(read) + Len(reader) <= Length
        /\ (Len(read) + Len(reader)) + Len(preEncrypted) <= Length
        /\ Len(read) + Len(reader) \in Nat
    <3>1. Len(read) + Len(reader) + Len(preEncrypted) = taken /\ taken <= Length
      <4>1. taken <= Length
        BY <1>1
      <4>. QED BY <4>1, <1>2
    <3>2. Len(read) \in Nat /\ Len(reader) \in Nat /\ Len(preEncrypted) \in Nat
      BY <1>1
    <3>. QED BY <1>1, <3>1, <3>2
  <2>2. Says(reader, Clear("client"), Len(read))
    BY <1>1, <1>2, <1>4, <2>1, HandedUpInClear
  <2>3. Says(preEncrypted, Clear("client"), Len(read) + Len(reader))
    BY <1>1, <1>2, <1>4, <2>1, HandedUpInClear
  <2>. QED BY <2>2, <2>3
<1> DEFINE first == read \o reader
<1>6. /\ first \in Seq(Bytes("client")) /\ Len(first) = Len(read) + Len(reader)
      /\ Says(first, Clear("client"), 0)
  <2>1. Says(reader, Clear("client"), 0 + Len(read))
    BY <1>1, <1>5
  <2>. QED BY <2>1, <1>1, <1>2, SaysJoin
<1>7. /\ read' \in Seq(Bytes("client")) /\ Len(read') = taken /\ Says(read', Clear("client"), 0)
  <2>1. read' = first \o preEncrypted
    BY <1>3
  <2> HIDE DEF first
  <2>2. Says(preEncrypted, Clear("client"), 0 + Len(first))
    BY <1>1, <1>5, <1>6
  <2>3. /\ first \o preEncrypted \in Seq(Bytes("client"))
        /\ Len(first \o preEncrypted) = Len(first) + Len(preEncrypted)
        /\ Says(first \o preEncrypted, Clear("client"), 0)
    BY <1>1, <1>6, <2>2, SaysJoin
  <2>. QED BY <2>1, <2>3, <1>1, <1>2, <1>6
<1>8. /\ Len(<<>>) = 0 /\ <<>> \in Seq(Bytes("client"))
      /\ \A n : Says(<<>>, Ahead', n)
  BY DEF Says
<1>9. ReadType'
  <2>1. /\ cut \in Cuts /\ encrypted \in BOOLEAN /\ sent \in Nat /\ want \in Nat /\ want <= Length
        /\ BufferSize \in Nat
    BY ReadNumbers DEF ReadInv, ReadType
  <2>. QED BY <2>1, <1>1, <1>3, <1>7, <1>8 DEF ReadType
<1>10. InPlace'
  BY <1>1, <1>3, <1>7, <1>8 DEF InPlace
<1>11. DecrypterInStep'
  <2>1. CASE encrypted
    BY <2>1, <1>1, <1>2, <1>3, <1>7 DEF ReadInv, DecrypterInStep
  <2>2. CASE ~encrypted
    BY <2>2, <1>1, <1>3, <1>4 DEF ReadInv, DecrypterInStep
  <2>. QED BY <2>1, <2>2
<1>12. NothingBehind'
  BY <1>3 DEF NothingBehind
<1>. QED BY <1>9, <1>10, <1>11, <1>12 DEF ReadInv

\* The reactor's reads go on where the takeover left off.
LEMMA ReadReadyKeeps ==
  ASSUME ReadInv, ReadReady
  PROVE  ReadInv'
<1> DEFINE chunk == Socket(ReadSize)
           plain == Deciphered(decrypter, chunk)
<1>1. /\ taken \in Nat /\ taken <= sent /\ sent \in Nat /\ sent <= Length /\ Length \in Nat
      /\ cut \in Nat /\ cut <= Length /\ ReadSize \in Nat
      /\ read \in Seq(Bytes("client")) /\ Len(read) \in Nat
  BY ReadNumbers DEF ReadInv, ReadType
<1>2. /\ takenOver /\ decrypter' = plain.cipher /\ read' = read \o plain.dst
      /\ taken' = taken + Len(chunk)
      /\ UNCHANGED <<cut, encrypted, sent, reader, preEncrypted, want, takenOver>>
  BY DEF ReadReady
<1>3. /\ reader = <<>> /\ preEncrypted = <<>> /\ want = 0
      /\ Len(reader) = 0 /\ Len(preEncrypted) = 0
  BY <1>2 DEF ReadInv, NothingBehind
<1>4. Len(read) = taken /\ Says(read, Clear("client"), 0)
  <2>1. Len(read) + Len(reader) + Len(preEncrypted) = taken /\ Says(read, Clear("client"), 0)
    BY DEF ReadInv, InPlace
  <2>. QED BY <2>1, <1>1, <1>3
<1>5. Len(chunk) \in Nat /\ taken + Len(chunk) <= sent
  BY <1>1, SocketGives DEF ReadInv
<1>6. /\ plain.dst \in Seq(Bytes("client")) /\ Len(plain.dst) = Len(chunk)
      /\ Says(plain.dst, Ahead, taken)
      /\ plain.cipher = DecrypterAt(taken + Len(chunk))
  BY <1>1, SocketDeciphered
<1> DEFINE got == plain.dst
           m == Len(chunk)
<1> HIDE DEF chunk, plain
<1>7. encrypted \/ cut = Length
  <2>1. encrypted \/ ~(cut < Length)
    BY <1>2 DEF ReadInv, DecrypterInStep
  <2>. QED BY <2>1, <1>1
<1>8. Says(got, Clear("client"), 0 + Len(read))
  <2>1. taken + Len(got) <= Length /\ Len(got) \in Nat /\ 0 + Len(read) = taken
    BY <1>1, <1>4, <1>5, <1>6
  <2>2. Says(got, Clear("client"), taken)
    BY <1>1, <1>6, <1>7, <2>1, HandedUpInClear
  <2>. QED BY <2>1, <2>2
<1>9. /\ read' \in Seq(Bytes("client")) /\ Len(read') = taken' /\ Says(read', Clear("client"), 0)
  <2>1. /\ read \o got \in Seq(Bytes("client")) /\ Len(read \o got) = Len(read) + Len(got)
        /\ Says(read \o got, Clear("client"), 0)
    BY <1>1, <1>4, <1>6, <1>8, SaysJoin
  <2>. QED BY <2>1, <1>2, <1>4, <1>6
<1>10. ReadType'
  <2>1. taken' \in Nat /\ taken' <= sent'
    BY <1>1, <1>2, <1>5
  <2>. QED BY <2>1, <1>2, <1>9 DEF ReadInv, ReadType
<1>11. InPlace'
  <2>1. \A n : Says(reader, Ahead', n) /\ Says(preEncrypted, Ahead', n)
    BY <1>3 DEF Says
  <2>2. Len(read') + Len(reader') + Len(preEncrypted') = taken'
    BY <1>1, <1>2, <1>3, <1>5, <1>9
  <2>. QED BY <2>1, <2>2, <1>2, <1>9 DEF InPlace
<1>12. DecrypterInStep'
  <2>1. CASE encrypted
    <3>1. cut <= Len(read')
      BY <2>1, <1>1, <1>2, <1>4, <1>5, <1>9 DEF ReadInv, DecrypterInStep
    <3>2. decrypter' = Decrypter("client", cut', taken' - cut')
      BY <2>1, <1>2, <1>6 DEF DecrypterAt
    <3>. QED BY <2>1, <3>1, <3>2, <1>2 DEF DecrypterInStep
  <2>2. CASE ~encrypted
    <3>1. decrypter' = Nothing
      BY <2>2, <1>2, <1>6 DEF DecrypterAt
    <3>. QED BY <2>2, <3>1, <1>1, <1>2, <1>3, <1>7 DEF DecrypterInStep
  <2>. QED BY <2>1, <2>2
<1>13. NothingBehind'
  BY <1>2, <1>3 DEF NothingBehind
<1>. QED BY <1>10, <1>11, <1>12, <1>13 DEF ReadInv

\* Each step keeps the read half as it should be.
LEMMA ReadStep ==
  ASSUME ReadInv, [Next]_vars
  PROVE  ReadInv'
<1>1. ASSUME UNCHANGED <<cut, encrypted, taken, reader, preEncrypted, decrypter, read, takenOver>>,
             sent' \in Nat, taken <= sent', sent' <= Length,
             want' \in Nat, want' <= Length, takenOver => want' = 0,
             cut < Length /\ ~encrypted => Len(read) + want' <= cut
      PROVE  ReadInv'
  <2>1. ReadType'
    BY <1>1 DEF ReadInv, ReadType
  <2>2. InPlace'
    <3>1. Ahead' = Ahead
      BY <1>1 DEF Ahead
    <3>. QED BY <3>1, <1>1 DEF ReadInv, InPlace
  <2>3. DecrypterInStep'
    <3>1. CASE encrypted
      BY <3>1, <1>1 DEF ReadInv, DecrypterInStep
    <3>2. CASE ~encrypted
      BY <3>2, <1>1 DEF ReadInv, DecrypterInStep
    <3>. QED BY <3>1, <3>2
  <2>4. NothingBehind'
    BY <1>1 DEF ReadInv, NothingBehind
  <2>. QED BY <2>1, <2>2, <2>3, <2>4 DEF ReadInv
<1>2. /\ sent \in Nat /\ taken \in Nat /\ taken <= sent /\ sent <= Length /\ Length \in Nat
      /\ want \in Nat /\ want <= Length /\ (takenOver => want = 0)
      /\ (cut < Length /\ ~encrypted => Len(read) + want <= cut)
  BY ReadNumbers DEF ReadInv, ReadType, DecrypterInStep, NothingBehind
<1>3. CASE Send
  <2>1. sent' \in Nat /\ taken <= sent' /\ sent' <= Length
        /\ UNCHANGED <<cut, encrypted, taken, reader, preEncrypted, decrypter, want, read, takenOver>>
    BY <1>2, <1>3 DEF Send
  <2>. QED BY <2>1, <1>1, <1>2
<1>4. ASSUME NEW n \in 1 .. Length, Ask(n)
      PROVE  ReadInv'
  <2>1. /\ want' = n /\ ~takenOver /\ (cut < Length /\ ~encrypted => Len(read) + n <= cut)
        /\ UNCHANGED <<cut, encrypted, sent, taken, reader, preEncrypted, decrypter, read, takenOver>>
    BY <1>4 DEF Ask
  <2>2. want' \in Nat /\ want' <= Length
    BY <2>1, <1>2
  <2>. QED BY <2>1, <2>2, <1>1, <1>2
<1>5. CASE Read
  <2>1. PICK got : Handed(got) /\ read' = read \o got
    BY <1>5, ReadHands
  <2>2. ~takenOver
    BY <1>2, <1>5 DEF Read
  <2>3. /\ want' = want - (Len(read') - Len(read))
        /\ UNCHANGED <<cut, encrypted, sent, takenOver>>
    BY <1>5 DEF Read
  <2>. QED BY <2>1, <2>2, <2>3, HandedKeeps
<1>6. CASE EnableEncryption
  BY <1>6, EnableKeepsRead
<1>7. CASE TakeoverRead
  BY <1>7, TakeoverKeeps
<1>8. CASE ReadReady
  BY <1>8, ReadReadyKeeps
<1>9. CASE UNCHANGED <<cut, encrypted, readHalf>>
  <2>1. UNCHANGED <<cut, encrypted, sent, taken, reader, preEncrypted, decrypter, want, read, takenOver>>
    BY <1>9 DEF readHalf
  <2>. QED BY <2>1, <1>1, <1>2
<1>10. ASSUME NEW n \in 1 .. Writes, Write(n)
       PROVE  ReadInv'
  <2>1. UNCHANGED <<cut, encrypted, readHalf>>
    BY <1>10 DEF Write
  <2>. QED BY <2>1, <1>9
<1>11. CASE Flush
  BY <1>9, <1>11 DEF Flush
<1>12. CASE UNCHANGED vars
  BY <1>9, <1>12 DEF vars
<1>. QED BY <1>3, <1>4, <1>5, <1>6, <1>7, <1>8, <1>10, <1>11, <1>12 DEF Next

-------------------------------------------------------------------------------
(* The write half                                                             *)

\* What the constants and the types say of it.
LEMMA WriteNumbers ==
  ASSUME WriteType
  PROVE  /\ Length \in Nat /\ Writes \in Nat /\ BufferSize \in Nat \ {0}
         /\ meant \in Nat /\ written \in Nat /\ written <= Writes
         /\ writer \in Seq(Bytes("server")) /\ Len(writer) \in Nat /\ Len(writer) <= BufferSize
         /\ out \in Seq(Bytes("server")) /\ Len(out) \in Nat
<1>1. /\ Length \in Nat /\ Writes \in Nat /\ BufferSize \in Nat \ {0}
      /\ {meant, written} \subseteq Nat /\ written <= Writes
      /\ {writer, out} \subseteq Seq(Bytes("server")) /\ Len(writer) <= BufferSize
  BY BoundsAssumption DEF WriteType
<1>. QED BY <1>1

\* What goes out in the clear, or through the encrypter, keeps what has gone out as
\* it was meant to be.
LEMMA EmitKeeps ==
  ASSUME WriteInv, encrypted \in BOOLEAN, NEW bytes \in Seq(Bytes("server")), Emit(bytes),
         Says(bytes, Clear("server"), Len(out)), Len(out) + Len(bytes) <= Writes,
         UNCHANGED <<encrypted, meant>>
  PROVE  /\ out' \in Seq(Bytes("server")) /\ Len(out') = Len(out) + Len(bytes)
         /\ EncrypterInStep'
<1>1. /\ Length \in Nat /\ Writes \in Nat /\ meant \in Nat
      /\ out \in Seq(Bytes("server")) /\ Len(out) \in Nat /\ Len(bytes) \in Nat
  BY WriteNumbers DEF WriteInv
<1>2. out' = out \o Deciphered(encrypter, bytes).dst
      /\ encrypter' = Deciphered(encrypter, bytes).cipher
  BY DEF Emit
<1>3. CASE encrypted
  <2> DEFINE k == Len(out) - meant
  <2>1. /\ meant <= Len(out) /\ Says(out, Wire("server", meant), 0)
        /\ encrypter = Encrypter("server", meant, k)
    BY <1>3 DEF WriteInv, EncrypterInStep
  <2>2. k \in Nat /\ meant + k = Len(out) /\ meant + k + Len(bytes) <= Length + Writes
        /\ 0 + Len(out) = Len(out)
    BY <2>1, <1>1
  <2> HIDE DEF k
  <2> DEFINE made == XORKeyStream(Encrypter("server", meant, k), bytes)
  <2>3. Deciphered(encrypter, bytes) = made
    BY <2>1, <2>2, <1>1, SomeCipher
  <2>4. /\ made.cipher = Encrypter("server", meant, k + Len(bytes))
        /\ made.dst \in Seq(Bytes("server")) /\ Len(made.dst) = Len(bytes)
        /\ Says(made.dst, Wire("server", meant), meant + k)
    <3>1. Says(bytes, Clear("server"), meant + k)
      BY <2>2
    <3>. QED BY <2>2, <3>1, <1>1, Enciphers
  <2> HIDE DEF made
  <2>5. /\ out \o made.dst \in Seq(Bytes("server"))
        /\ Len(out \o made.dst) = Len(out) + Len(made.dst)
        /\ Says(out \o made.dst, Wire("server", meant), 0)
    <3>1. Says(made.dst, Wire("server", meant), 0 + Len(out))
      BY <2>2, <2>4
    <3>. QED BY <3>1, <2>1, <2>4, <1>1, SaysJoin
  <2>6. out' \in Seq(Bytes("server")) /\ Len(out') = Len(out) + Len(bytes)
        /\ Says(out', Wire("server", meant), 0)
    BY <2>3, <2>4, <2>5, <1>2
  <2>7. k + Len(bytes) = Len(out') - meant /\ meant <= Len(out')
    <3>1. Len(out') = Len(out) + Len(bytes) /\ meant + k = Len(out) /\ k \in Nat
      BY <2>2, <2>6
    <3>2. Len(out) \in Nat /\ Len(bytes) \in Nat /\ meant \in Nat
      BY <1>1
    <3>. QED BY <3>1, <3>2
  <2>8. encrypter' = Encrypter("server", meant, Len(out') - meant)
    BY <2>3, <2>4, <2>7, <1>2
  <2>. QED BY <2>6, <2>7, <2>8, <1>3 DEF EncrypterInStep
<1>4. CASE ~encrypted
  <2>1. meant = 0 /\ encrypter = Nothing /\ Says(out, Clear("server"), 0)
    BY <1>4 DEF WriteInv, EncrypterInStep
  <2>2. Deciphered(encrypter, bytes) = [cipher |-> Nothing, dst |-> bytes]
    BY <2>1, <1>1, SomeCipher
  <2>3. out' = out \o bytes /\ encrypter' = Nothing
    BY <2>2, <1>2
  <2>4. Says(bytes, Clear("server"), 0 + Len(out))
    BY <1>1
  <2>5. /\ out \o bytes \in Seq(Bytes("server")) /\ Len(out \o bytes) = Len(out) + Len(bytes)
        /\ Says(out \o bytes, Clear("server"), 0)
    BY <2>1, <2>4, <1>1, SaysJoin
  <2>. QED BY <2>1, <2>3, <2>5, <1>4 DEF EncrypterInStep
<1>. QED BY <1>3, <1>4

\* Writing n bytes: what does not stay in the buffer goes out in front of what does.
LEMMA WriteKeeps ==
  ASSUME WriteInv, encrypted \in BOOLEAN, NEW n \in 1 .. Writes, Write(n)
  PROVE  WriteInv'
<1> DEFINE new == [k \in 1 .. n |-> Byte("server", written + k)]
           all == writer \o new
           rest == Drop(all, BufferSize)
           keep == IF Len(all) <= BufferSize THEN all
                   ELSE IF writer = <<>> \/ Len(rest) > BufferSize THEN <<>> ELSE rest
           gone == Take(all, Len(all) - Len(keep))
<1>1. /\ Length \in Nat /\ Writes \in Nat /\ BufferSize \in Nat \ {0} /\ n \in Nat
      /\ written \in Nat /\ writer \in Seq(Bytes("server")) /\ Len(writer) \in Nat
      /\ Len(out) \in Nat
      /\ Len(out) + Len(writer) = written
      /\ Says(writer, Clear("server"), Len(out))
  BY WriteNumbers DEF WriteInv, Unflushed
<1>2. /\ written + n <= Writes /\ Emit(gone) /\ writer' = keep /\ written' = written + n
      /\ UNCHANGED <<cut, encrypted, readHalf, meant>>
  BY Zenon DEF Write
<1>3. /\ new \in Seq(Bytes("server")) /\ Len(new) = n
      /\ Says(new, Clear("server"), Len(out) + Len(writer))
  <2>1. ASSUME NEW k \in 1 .. n
        PROVE  new[k] = Clear("server")[written + k] /\ new[k] \in Bytes("server")
    <3>1. written + k \in Nat
      BY <1>1
    <3>2. new[k] = Clear("server")[written + k]
      BY <3>1 DEF Clear
    <3>3. written + n <= Length + Writes
      BY <1>1, <1>2
    <3>4. Within(Clear("server"), written, n, Bytes("server"))
      BY <1>1, <3>3, BytesType
    <3>. QED BY <3>2, <3>4 DEF Within
  <2>2. new \in [1 .. n -> Bytes("server")]
    BY <2>1
  <2> HIDE DEF new
  <2>3. new \in Seq(Bytes("server")) /\ DOMAIN new = 1 .. n
    <3>1. DOMAIN new = 1 .. n
      BY <2>2, Zenon
    <3>2. new \in Seq(Bytes("server"))
      BY <2>2, <1>1, SeqDef
    <3>. QED BY <3>1, <3>2
  <2>4. Len(new) = n
    BY <2>3, <1>1, LenProperties
  <2>5. Says(new, Clear("server"), written)
    BY <2>1, <2>4 DEF Says
  <2>. QED BY <2>3, <2>4, <2>5, <1>1
<1> HIDE DEF new
<1>4. /\ all \in Seq(Bytes("server")) /\ Len(all) = Len(writer) + n
      /\ Says(all, Clear("server"), Len(out))
  BY <1>1, <1>3, SaysJoin
<1>5. Len(all) \in Nat /\ Len(out) + Len(all) = written + n
  <2>1. Len(all) = Len(writer) + n /\ Len(out) + Len(writer) = written
    BY <1>1, <1>4
  <2>2. Len(writer) \in Nat /\ n \in Nat /\ Len(out) \in Nat
    BY <1>1
  <2> HIDE DEF all
  <2>. QED BY <2>1, <2>2
<1> HIDE DEF all
<1> DEFINE m == Len(all) - Len(keep)
<1>6. /\ keep \in Seq(Bytes("server")) /\ Len(keep) \in Nat /\ Len(keep) <= BufferSize
      /\ m \in Nat /\ m <= Len(all)
      /\ Says(keep, Clear("server"), Len(out) + m)
  <2>1. CASE Len(all) <= BufferSize
    <3>1. keep = all /\ Len(all) - Len(all) = 0 /\ Len(out) + 0 = Len(out)
      BY <2>1, <1>1, <1>5
    <3>. QED BY <3>1, <2>1, <1>4, <1>5
  <2>2. CASE Len(all) > BufferSize /\ (writer = <<>> \/ Len(rest) > BufferSize)
    <3>1. keep = <<>>
      BY <2>2, <1>1, <1>5
    <3> HIDE DEF keep, rest
    <3>2. Len(keep) = 0 /\ keep \in Seq(Bytes("server"))
          /\ Says(keep, Clear("server"), Len(out) + m)
      BY <3>1 DEF Says
    <3>. QED BY <3>2, <1>1, <1>5
  <2>3. CASE Len(all) > BufferSize /\ ~(writer = <<>> \/ Len(rest) > BufferSize)
    <3>1. keep = rest
      BY <2>3, <1>1, <1>5
    <3>2. Smaller(BufferSize, Len(all)) = BufferSize
      BY <2>3, <1>1, <1>5 DEF Smaller
    <3>3. /\ rest \in Seq(Bytes("server")) /\ Len(rest) = Len(all) - BufferSize
          /\ Says(rest, Clear("server"), Len(out) + BufferSize)
      BY <3>2, <1>1, <1>4, SaysCut
    <3> HIDE DEF keep
    <3>4. m = BufferSize /\ Len(rest) \in Nat /\ Len(rest) <= BufferSize
      <4>1. Len(keep) = Len(all) - BufferSize /\ ~(Len(rest) > BufferSize)
        BY <3>1, <3>3, <2>3
      <4>2. Len(all) - (Len(all) - BufferSize) = BufferSize /\ Len(all) - BufferSize \in Nat
            /\ BufferSize \in Nat
        BY <1>1, <1>5, <2>3
      <4> HIDE DEF rest
      <4>. QED BY <4>1, <4>2, <3>3
    <3> HIDE DEF rest, m
    <3>. QED BY <3>1, <3>3, <3>4, <2>3, <1>1
  <2>4. Len(all) <= BufferSize \/ Len(all) > BufferSize
    BY <1>1, <1>5
  <2> HIDE DEF keep, rest, m
  <2>. QED BY <2>1, <2>2, <2>3, <2>4, Zenon
<1> HIDE DEF keep, rest
<1>7. /\ gone \in Seq(Bytes("server")) /\ Len(gone) = m
      /\ Says(gone, Clear("server"), Len(out))
  <2>1. Smaller(m, Len(all)) = m
    BY <1>6 DEF Smaller
  <2> HIDE DEF m
  <2>2. /\ Take(all, m) \in Seq(Bytes("server")) /\ Len(Take(all, m)) = m
        /\ Says(Take(all, m), Clear("server"), Len(out))
    BY <2>1, <1>1, <1>4, <1>6, SaysCut
  <2>. QED BY <2>2 DEF m
<1>8. m + Len(keep) = Len(all)
  BY <1>5, <1>6
<1> HIDE DEF gone, m
<1>9. /\ out' \in Seq(Bytes("server")) /\ Len(out') = Len(out) + m /\ EncrypterInStep'
  <2>1. Len(out) + Len(gone) <= Writes
    <3>1. Len(gone) = m /\ m <= Len(all) /\ m \in Nat
      BY <1>6, <1>7
    <3>2. Len(out) + Len(all) <= Writes /\ Len(all) \in Nat /\ Len(out) \in Nat
      BY <1>1, <1>2, <1>5
    <3>. QED BY <3>1, <3>2, <1>1
  <2>. QED BY <2>1, <1>2, <1>7, EmitKeeps
<1>10. Len(out') + Len(writer') = written'
  <2>1. Len(out') = Len(out) + m /\ Len(writer') = Len(keep) /\ written' = written + n
    BY <1>2, <1>9
  <2>2. m \in Nat /\ Len(keep) \in Nat /\ Len(out) \in Nat
    BY <1>1, <1>6
  <2>. QED BY <2>1, <2>2, <1>5, <1>8
<1>11. WriteType'
  <2>1. meant' \in Nat /\ written' \in Nat /\ written' <= Writes
    BY <1>1, <1>2 DEF WriteInv, WriteType
  <2>2. {writer', out'} \subseteq Seq(Bytes("server")) /\ Len(writer') <= BufferSize
    BY <1>2, <1>6, <1>9
  <2>. QED BY <2>1, <2>2 DEF WriteType
<1>12. Unflushed'
  <2>1. Says(writer', Clear("server"), Len(out'))
    BY <1>2, <1>6, <1>9
  <2>. QED BY <2>1, <1>10 DEF Unflushed
<1>. QED BY <1>9, <1>11, <1>12 DEF WriteInv

\* A flush.
LEMMA FlushKeeps ==
  ASSUME WriteInv, encrypted \in BOOLEAN, Flush
  PROVE  WriteInv'
<1>1. /\ Writes \in Nat /\ meant \in Nat /\ written \in Nat /\ written <= Writes
      /\ writer \in Seq(Bytes("server")) /\ Len(writer) \in Nat /\ Len(out) \in Nat
      /\ BufferSize \in Nat
  BY WriteNumbers DEF WriteInv
<1>2. Len(out) + Len(writer) = written /\ Says(writer, Clear("server"), Len(out))
  BY DEF WriteInv, Unflushed
<1>3. Emit(writer) /\ writer' = <<>> /\ UNCHANGED <<encrypted, meant, written>>
  BY DEF Flush
<1>4. /\ out' \in Seq(Bytes("server")) /\ Len(out') = written /\ EncrypterInStep'
  <2>1. Len(out) + Len(writer) <= Writes
    BY <1>1, <1>2
  <2>. QED BY <2>1, <1>1, <1>2, <1>3, EmitKeeps
<1>5. /\ writer' \in Seq(Bytes("server")) /\ Len(writer') = 0
      /\ Says(writer', Clear("server"), Len(out'))
  BY <1>3 DEF Says
<1>6. WriteType'
  BY <1>1, <1>3, <1>4, <1>5 DEF WriteType
<1>7. Unflushed'
  BY <1>1, <1>3, <1>4, <1>5 DEF Unflushed
<1>. QED BY <1>4, <1>6, <1>7 DEF WriteInv

\* The cipher goes on after all that was written, flushed or not.
LEMMA EnableKeepsWrite ==
  ASSUME WriteInv, EnableEncryption
  PROVE  WriteInv'
<1>1. /\ Writes \in Nat /\ Length \in Nat /\ meant \in Nat /\ written \in Nat
      /\ written <= Writes /\ BufferSize \in Nat
      /\ writer \in Seq(Bytes("server")) /\ Len(writer) \in Nat
      /\ out \in Seq(Bytes("server")) /\ Len(out) \in Nat
  BY WriteNumbers DEF WriteInv
<1>2. Len(out) + Len(writer) = written /\ Says(writer, Clear("server"), Len(out))
  BY DEF WriteInv, Unflushed
<1>3. /\ ~encrypted /\ encrypted' /\ out' = out \o writer /\ writer' = <<>>
      /\ meant' = written /\ written' = written /\ encrypter' = newCfb8(FALSE)
  BY Zenon DEF EnableEncryption
<1>4. Says(out, Clear("server"), 0)
  BY <1>3 DEF WriteInv, EncrypterInStep
<1>5. /\ out' \in Seq(Bytes("server")) /\ Len(out') = written
      /\ Says(out', Clear("server"), 0)
  <2>1. Says(writer, Clear("server"), 0 + Len(out))
    BY <1>1, <1>2
  <2>2. /\ out \o writer \in Seq(Bytes("server"))
        /\ Len(out \o writer) = Len(out) + Len(writer)
        /\ Says(out \o writer, Clear("server"), 0)
    BY <1>1, <1>4, <2>1, SaysJoin
  <2>. QED BY <2>2, <1>2, <1>3
<1>6. Says(out', Wire("server", meant'), 0)
  <2>1. 0 + Len(out') <= meant' /\ Len(out') \in Nat /\ meant' \in Nat
    BY <1>1, <1>3, <1>5
  <2>. QED BY <2>1, <1>5, PlainBefore
<1>7. encrypter' = Encrypter("server", meant', Len(out') - meant')
  <2>1. Len(out') - meant' = 0 /\ meant' \in Nat
    BY <1>1, <1>3, <1>5
  <2>2. newCfb8(FALSE) = Encrypter("server", meant', 0)
    BY <2>1, NewCiphers
  <2>. QED BY <2>1, <2>2, <1>3
<1>8. EncrypterInStep'
  <2>1. meant' <= Len(out')
    BY <1>1, <1>3, <1>5
  <2>. QED BY <2>1, <1>3, <1>6, <1>7 DEF EncrypterInStep
<1>9. /\ writer' \in Seq(Bytes("server")) /\ Len(writer') = 0
      /\ Says(writer', Clear("server"), Len(out'))
  BY <1>3 DEF Says
<1>10. WriteType'
  BY <1>1, <1>3, <1>5, <1>9 DEF WriteType
<1>11. Unflushed'
  BY <1>1, <1>3, <1>5, <1>9 DEF Unflushed
<1>. QED BY <1>8, <1>10, <1>11 DEF WriteInv

\* Each step keeps the write half as it should be.
LEMMA WriteStep ==
  ASSUME WriteInv, encrypted \in BOOLEAN, [Next]_vars
  PROVE  WriteInv'
<1>1. CASE UNCHANGED <<encrypted, writeHalf>>
  <2>1. UNCHANGED <<encrypted, encrypter, meant, written, writer, out>>
    BY <1>1 DEF writeHalf
  <2>. QED BY <2>1 DEF WriteInv, WriteType, Unflushed, EncrypterInStep
<1>2. CASE Send
  BY <1>1, <1>2 DEF Send
<1>3. CASE \E n \in 1 .. Length : Ask(n)
  BY <1>1, <1>3 DEF Ask
<1>4. CASE Read
  BY <1>1, <1>4, Zenon DEF Read
<1>5. CASE EnableEncryption
  BY <1>5, EnableKeepsWrite
<1>6. CASE TakeoverRead
  BY <1>1, <1>6 DEF TakeoverRead
<1>7. CASE ReadReady
  BY <1>1, <1>7, Zenon DEF ReadReady
<1>8. CASE \E n \in 1 .. Writes : Write(n)
  BY <1>8, WriteKeeps
<1>9. CASE Flush
  BY <1>9, FlushKeeps
<1>10. CASE UNCHANGED vars
  BY <1>1, <1>10 DEF vars
<1>. QED BY <1>2, <1>3, <1>4, <1>5, <1>6, <1>7, <1>8, <1>9, <1>10, Zenon DEF Next

-------------------------------------------------------------------------------
(* Always                                                                     *)

\* Nothing is anywhere to begin with.
LEMMA InitInv ==
  ASSUME Init
  PROVE  StreamsInv
<1>1. /\ Length \in Nat /\ Writes \in Nat /\ BufferSize \in Nat
      /\ Cuts \subseteq 0 .. Length
  BY BoundsAssumption, CutsAssumption
<1>2. /\ cut \in Cuts /\ sent = 0 /\ taken = 0 /\ want = 0 /\ meant = 0 /\ written = 0
      /\ reader = <<>> /\ preEncrypted = <<>> /\ read = <<>> /\ writer = <<>> /\ out = <<>>
      /\ decrypter = Nothing /\ encrypter = Nothing /\ encrypted = FALSE /\ takenOver = FALSE
  BY DEF Init
<1>3. cut \in Nat
  BY <1>1, <1>2
<1>4. /\ <<>> \in Seq(Bytes("client")) /\ <<>> \in Seq(Bytes("server"))
      /\ Len(<<>>) = 0 /\ \A w, n : Says(<<>>, w, n)
  BY DEF Says
<1>5. ReadType
  <2>1. {sent, taken, want} \subseteq Nat /\ taken <= sent /\ sent <= Length /\ want <= Length
    BY <1>1, <1>2
  <2>2. /\ {reader, preEncrypted, read} \subseteq Seq(Bytes("client"))
        /\ Len(reader) <= BufferSize /\ Len(preEncrypted) <= BufferSize
    BY <1>1, <1>2, <1>4
  <2>3. cut \in Cuts /\ encrypted \in BOOLEAN /\ takenOver \in BOOLEAN
    BY <1>2
  <2>. QED BY <2>1, <2>2, <2>3 DEF ReadType
<1>6. InPlace
  <2>1. Len(read) + Len(reader) + Len(preEncrypted) = taken
    BY <1>2, <1>4
  <2>. QED BY <2>1, <1>2, <1>4 DEF InPlace
<1>7. DecrypterInStep
  <2>1. Len(read) + want <= cut
    BY <1>2, <1>3, <1>4
  <2>. QED BY <2>1, <1>2 DEF DecrypterInStep
<1>8. NothingBehind
  BY <1>2 DEF NothingBehind
<1>9. WriteType
  BY <1>1, <1>2, <1>4 DEF WriteType
<1>10. Unflushed
  <2>1. Len(out) + Len(writer) = written
    BY <1>2, <1>4
  <2>. QED BY <2>1, <1>2, <1>4 DEF Unflushed
<1>11. EncrypterInStep
  BY <1>2, <1>4 DEF EncrypterInStep
<1>. QED BY <1>5, <1>6, <1>7, <1>8, <1>9, <1>10, <1>11 DEF StreamsInv, ReadInv, WriteInv

\* The invariant is one.
LEMMA AlwaysStreams == Spec => []StreamsInv
<1>1. StreamsInv /\ [Next]_vars => StreamsInv'
  <2> SUFFICES ASSUME StreamsInv, [Next]_vars PROVE StreamsInv'
    OBVIOUS
  <2>1. ReadInv /\ WriteInv
    BY DEF StreamsInv
  <2>2. encrypted \in BOOLEAN
    BY <2>1 DEF ReadInv, ReadType
  <2>3. ReadInv' /\ WriteInv'
    BY <2>1, <2>2, ReadStep, WriteStep
  <2>. QED BY <2>3 DEF StreamsInv
<1>. QED BY <1>1, InitInv, PTL DEF Spec

(* What is read, buffered and written is bytes, the buffers hold no more than *)
(* they may, and the registers of the ciphers are whole, however the buffered *)
(* reader and writer and EnableEncryption have passed them on.                *)
THEOREM TypeCorrect == Spec => []TypeOK
<1>1. StreamsInv => TypeOK
  <2> SUFFICES ASSUME StreamsInv PROVE TypeOK
    OBVIOUS
  <2>1. ReadInv /\ WriteInv
    BY DEF StreamsInv
  <2>2. ReadType /\ WriteType
    BY <2>1 DEF ReadInv, WriteInv
  <2>3. /\ Length \in Nat /\ Writes \in Nat /\ cut \in Nat /\ cut <= Length
        /\ sent \in Nat /\ taken \in Nat /\ want \in Nat
        /\ meant \in Nat /\ written \in Nat /\ written <= Writes
        /\ Len(writer) \in Nat /\ Len(out) \in Nat
    BY <2>2, ReadNumbers, WriteNumbers
  <2>4. cut \in Cuts /\ encrypted \in BOOLEAN /\ takenOver \in BOOLEAN
        /\ taken <= sent /\ sent <= Length /\ want <= Length
        /\ Len(reader) <= BufferSize /\ Len(preEncrypted) <= BufferSize
        /\ Len(writer) <= BufferSize
    BY <2>2 DEF ReadType, WriteType
  <2>5. /\ \A s \in {reader, preEncrypted, read} : s \in Seq(Bytes("client"))
        /\ \A s \in {writer, out} : s \in Seq(Bytes("server"))
    BY <2>2 DEF ReadType, WriteType
  <2>6. \A B : \A s \in Seq(B) : \A k \in DOMAIN s : s[k] \in B
    OBVIOUS
  <2>7. Len(out) + Len(writer) = written
    BY <2>1 DEF WriteInv, Unflushed
  <2>8. Len(out) <= written
    <3> SUFFICES ASSUME NEW a \in Nat, NEW b \in Nat, a = Len(out), b = Len(writer)
                 PROVE  a <= a + b
      BY <2>3, <2>7
    <3>. QED OBVIOUS
  <2>9. meant <= written
    <3>1. encrypted => meant <= Len(out)
      BY <2>1 DEF WriteInv, EncrypterInStep
    <3>2. ~encrypted => meant = 0
      BY <2>1 DEF WriteInv, EncrypterInStep
    <3>. QED BY <3>1, <3>2, <2>3, <2>8
  <2>10. decrypter \in Ciphers
    <3>1. CASE ~encrypted
      BY <3>1, <2>1 DEF ReadInv, DecrypterInStep, Ciphers
    <3>2. CASE encrypted
      <4>1. cut <= Len(read) /\ decrypter = Decrypter("client", cut, taken - cut)
        BY <3>2, <2>1 DEF ReadInv, DecrypterInStep
      <4>2. Len(read) + Len(reader) + Len(preEncrypted) = taken
        BY <2>1 DEF ReadInv, InPlace
      <4>3. Len(read) \in Nat /\ Len(reader) \in Nat /\ Len(preEncrypted) \in Nat
        BY <2>2, ReadNumbers
      <4>4. Len(read) <= taken
        <5> SUFFICES ASSUME NEW a \in Nat, NEW b \in Nat, NEW c \in Nat,
                            a = Len(read), b = Len(reader), c = Len(preEncrypted)
                     PROVE  a <= a + b + c
          BY <4>2, <4>3
        <5>. QED OBVIOUS
      <4>5. taken - cut \in Nat /\ cut + (taken - cut) <= Length + Writes
        BY <4>1, <4>3, <4>4, <2>3, <2>4
      <4>6. Decrypter("client", cut, taken - cut) \in Ciphers
        BY <4>5, <2>3, RegisterType
      <4>. QED BY <4>1, <4>6
    <3>. QED BY <3>1, <3>2
  <2>11. encrypter \in Ciphers
    <3>1. CASE ~encrypted
      BY <3>1, <2>1 DEF WriteInv, EncrypterInStep, Ciphers
    <3>2. CASE encrypted
      <4>1. meant <= Len(out) /\ encrypter = Encrypter("server", meant, Len(out) - meant)
        BY <3>2, <2>1 DEF WriteInv, EncrypterInStep
      <4>2. Len(out) - meant \in Nat /\ meant + (Len(out) - meant) <= Length + Writes
        BY <4>1, <2>3, <2>8
      <4>3. Encrypter("server", meant, Len(out) - meant) \in Ciphers
        BY <4>2, <2>3, RegisterType
      <4>. QED BY <4>1, <4>3
    <3>. QED BY <3>1, <3>2
  <2>12. 0 <= taken /\ want \in 0 .. Length /\ 0 <= meant
    BY <2>3, <2>4
  <2>13. {encrypted, takenOver} \subseteq BOOLEAN
    BY <2>4
  <2>14. /\ \A s \in {reader, preEncrypted, read} : \A k \in DOMAIN s : s[k] \in Bytes("client")
         /\ \A s \in {writer, out} : \A k \in DOMAIN s : s[k] \in Bytes("server")
    BY <2>5, <2>6
  <2>. QED BY <2>3, <2>4, <2>9, <2>10, <2>11, <2>12, <2>13, <2>14 DEF TypeOK
<1>. QED BY <1>1, AlwaysStreams, PTL

(* What is handed up is what the client meant to say, in order and in the     *)
(* clear, wherever in the stream its cipher came on, however much the reader  *)
(* had buffered when EnableEncryption put the server's on, and however much   *)
(* lay in front of the socket when TakeoverRead gave the read half away.      *)
THEOREM DeliveredInOrderAlways == Spec => []DeliveredInOrder
<1>1. StreamsInv => DeliveredInOrder
  <2> SUFFICES ASSUME StreamsInv, NEW k \in DOMAIN read
               PROVE  read[k] = Byte("client", k)
    BY DEF DeliveredInOrder
  <2>1. ReadType /\ Says(read, Clear("client"), 0)
    BY DEF StreamsInv, ReadInv, InPlace
  <2>2. read \in Seq(Bytes("client"))
    BY <2>1, ReadNumbers
  <2>3. k \in 1 .. Len(read) /\ k \in Nat
    BY <2>2
  <2>4. read[k] = Clear("client")[0 + k] /\ 0 + k = k
    BY <2>1, <2>3 DEF Says
  <2>5. Clear("client")[k] = Byte("client", k)
    BY <2>3 DEF Clear
  <2>. QED BY <2>4, <2>5
<1>. QED BY <1>1, AlwaysStreams, PTL

(* No byte that was read off the socket is lost to the later reads when       *)
(* EnableEncryption replaces the reader and TakeoverRead gives it away.       *)
THEOREM NoByteStrandedAlways == Spec => []NoByteStranded
<1>1. StreamsInv => NoByteStranded
  <2> SUFFICES ASSUME StreamsInv PROVE NoByteStranded
    OBVIOUS
  <2>1. ReadType /\ Len(read) + Len(reader) + Len(preEncrypted) = taken /\ NothingBehind
    BY DEF StreamsInv, ReadInv, InPlace
  <2>2. Len(read) \in Nat
    BY <2>1, ReadNumbers
  <2>3. takenOver => Len(reader) = 0 /\ Len(preEncrypted) = 0
    BY <2>1 DEF NothingBehind
  <2>. QED BY <2>1, <2>2, <2>3 DEF NoByteStranded
<1>. QED BY <1>1, AlwaysStreams, PTL

(* The client reads what the server wrote: in the clear up to where           *)
(* EnableEncryption was called, flushed before it or not, and under one       *)
(* unbroken key stream from there on, in whatever pieces the writer let it go.*)
THEOREM WrittenAsMeantAlways == Spec => []WrittenAsMeant
<1>1. StreamsInv => WrittenAsMeant
  <2> SUFFICES ASSUME StreamsInv PROVE WrittenAsMeant
    OBVIOUS
  <2>1. WriteType /\ EncrypterInStep /\ Len(out) + Len(writer) = written
    BY DEF StreamsInv, WriteInv, Unflushed
  <2>2. /\ Length \in Nat /\ Writes \in Nat /\ meant \in Nat /\ written \in Nat
        /\ written <= Writes /\ Len(writer) \in Nat
        /\ out \in Seq(Bytes("server")) /\ Len(out) \in Nat
    BY <2>1, WriteNumbers
  <2>3. Len(ClientReads) = Len(out) /\ Says(ClientReads, Clear("server"), 0)
    <3>1. CASE ~encrypted
      BY <3>1, <2>1 DEF EncrypterInStep, ClientReads
    <3>2. CASE encrypted
      <4> DEFINE plain == Take(out, meant)
                 wire == Drop(out, meant)
                 clear == XORKeyStream(Decrypter("server", meant, 0), wire).dst
      <4>1. meant <= Len(out) /\ Says(out, Wire("server", meant), 0)
        BY <3>2, <2>1 DEF EncrypterInStep
      <4>2. Smaller(meant, Len(out)) = meant
        BY <4>1, <2>2 DEF Smaller
      <4>3. /\ plain \in Seq(Bytes("server")) /\ Len(plain) = meant
            /\ Len(wire) = Len(out) - meant
            /\ Says(plain, Wire("server", meant), 0)
            /\ Says(wire, Wire("server", meant), 0 + meant)
        BY <4>1, <4>2, <2>2, SaysCut
      <4> HIDE DEF plain, wire
      <4>4. Says(plain, Clear("server"), 0)
        <5>1. 0 + Len(plain) <= meant /\ Len(plain) \in Nat
          BY <4>3, <2>2
        <5>. QED BY <5>1, <4>3, <2>2, PlainBefore
      <4>5. /\ Len(wire) \in Nat /\ meant + 0 + Len(wire) <= Length + Writes
            /\ meant + Len(wire) = Len(out) /\ 0 + meant = meant /\ meant + 0 = meant
        <5>1. Len(out) <= Writes
          <6> SUFFICES ASSUME NEW a \in Nat, NEW b \in Nat, a = Len(out), b = Len(writer),
                              a + b <= Writes
                       PROVE  a <= Writes
            BY <2>1, <2>2
          <6>. QED BY <2>2
        <5>2. Len(wire) = Len(out) - meant
          BY <4>3
        <5>. QED BY <5>1, <5>2, <4>1, <2>2
      <4>6. Says(wire, Wire("server", meant), meant + 0)
        BY <4>3, <4>5
      <4>7. newCfb8(TRUE) = Decrypter("server", meant, 0)
        BY <2>2, NewCiphers
      <4>8. /\ clear \in Seq(Bytes("server")) /\ Len(clear) = Len(wire)
            /\ Says(clear, Clear("server"), meant + 0)
        BY <4>5, <4>6, <2>2, Deciphers
      <4> HIDE DEF clear
      <4>9. Says(clear, Clear("server"), 0 + Len(plain))
        BY <4>3, <4>5, <4>8
      <4>10. Len(plain \o clear) = Len(plain) + Len(clear)
             /\ Says(plain \o clear, Clear("server"), 0)
        BY <4>3, <4>4, <4>8, <4>9, SaysJoin
      <4>11. ClientReads = plain \o clear
        BY <3>2, <4>7, Zenon DEF ClientReads, plain, wire, clear
      <4>. QED BY <4>3, <4>5, <4>8, <4>10, <4>11
    <3>. QED BY <3>1, <3>2
  <2>4. ASSUME NEW k \in DOMAIN out
        PROVE  ClientReads[k] = Byte("server", k)
    <3>1. k \in 1 .. Len(out) /\ k \in Nat
      BY <2>2
    <3>2. ClientReads[k] = Clear("server")[0 + k] /\ 0 + k = k
      BY <2>3, <3>1 DEF Says
    <3>3. Clear("server")[k] = Byte("server", k)
      BY <3>1 DEF Clear
    <3>. QED BY <3>2, <3>3
  <2>. QED BY <2>4 DEF WrittenAsMeant
<1>. QED BY <1>1, AlwaysStreams, PTL

=============================================================================
