----------------------------- MODULE FramesProofs -----------------------------
(* What Frames promises, for bodies, thresholds and reads of every size.      *)
EXTENDS Frames, VarIntProofs

-------------------------------------------------------------------------------
(* Strings of bytes                                                           *)

Bytes == Seq(ByteValues)

\* They have a length.
LEMMA BytesLength == \A b \in Bytes : Len(b) \in Nat
  BY DEF Bytes

\* What is behind the first n bytes, and how they go together.
LEMMA Splits ==
  ASSUME NEW s \in Bytes, NEW n \in 0 .. Len(s)
  PROVE  /\ From(s, n) \in Bytes /\ Len(From(s, n)) = Len(s) - n
         /\ \A k \in 1 .. Len(s) - n : From(s, n)[k] = s[n + k]
         /\ SubSeq(s, 1, n) \in Bytes /\ Len(SubSeq(s, 1, n)) = n
         /\ \A k \in 1 .. n : SubSeq(s, 1, n)[k] = s[k]
         /\ SubSeq(s, 1, n) \o From(s, n) = s
<1>1. Len(s) \in Nat /\ n \in Nat /\ n <= Len(s)
  BY DEF Bytes
<1>2. From(s, n) \in Bytes /\ Len(From(s, n)) = Len(s) - n
  BY <1>1 DEF From, Bytes
<1>3. \A k \in 1 .. Len(s) - n : From(s, n)[k] = s[n + k]
  BY <1>1 DEF From, Bytes
<1>4. SubSeq(s, 1, n) \in Bytes /\ Len(SubSeq(s, 1, n)) = n
  BY <1>1 DEF Bytes
<1>5. \A k \in 1 .. n : SubSeq(s, 1, n)[k] = s[k]
  BY <1>1 DEF Bytes
<1>6. SubSeq(s, 1, n) \o From(s, n) = s
  <2> DEFINE a == SubSeq(s, 1, n)
             b == From(s, n)
  <2>1. a \in Bytes /\ b \in Bytes /\ Len(a) = n /\ Len(b) = Len(s) - n
    BY <1>2, <1>4
  <2>2. \A k \in 1 .. n : a[k] = s[k]
    BY <1>5
  <2>3. \A k \in 1 .. Len(s) - n : b[k] = s[n + k]
    BY <1>3
  <2> HIDE DEF a, b
  <2>4. a \o b \in Bytes /\ Len(a \o b) = Len(s)
    BY <1>1, <2>1 DEF Bytes
  <2>5. ASSUME NEW k \in 1 .. Len(s) PROVE (a \o b)[k] = s[k]
    <3>1. CASE k <= n
      BY <1>1, <2>1, <2>2, <3>1 DEF Bytes
    <3>2. CASE ~(k <= n)
      <4>1. k - n \in 1 .. Len(s) - n /\ n + (k - n) = k
        BY <1>1, <3>2
      <4>2. (a \o b)[k] = b[k - n]
        BY <1>1, <2>1, <3>2 DEF Bytes
      <4>. QED BY <2>3, <4>1, <4>2
    <3>. QED BY <3>1, <3>2
  <2>6. a \o b = s
    BY <2>4, <2>5, SeqEqual DEF Bytes
  <2>. QED BY <2>6 DEF a, b
<1>. QED BY <1>2, <1>3, <1>4, <1>5, <1>6

\* Bytes that are alike are the same.
LEMMA SameBytes ==
  ASSUME NEW s \in Bytes, NEW t \in Bytes, Len(s) = Len(t), \A k \in 1 .. Len(s) : s[k] = t[k]
  PROVE  s = t
  BY SeqEqual DEF Bytes

\* What is behind what is behind.
LEMMA FromFrom ==
  ASSUME NEW s \in Bytes, NEW n \in 0 .. Len(s), NEW m \in 0 .. Len(s) - n
  PROVE  From(From(s, n), m) = From(s, n + m)
<1>1. Len(s) \in Nat /\ n \in Nat /\ m \in Nat /\ n + m \in 0 .. Len(s) /\ n <= Len(s)
  BY DEF Bytes
<1> DEFINE a == From(s, n)
           b == From(a, m)
           c == From(s, n + m)
<1>2. a \in Bytes /\ Len(a) = Len(s) - n /\ \A k \in 1 .. Len(s) - n : a[k] = s[n + k]
  BY Splits
<1>3. c \in Bytes /\ Len(c) = Len(s) - (n + m) /\ \A k \in 1 .. Len(s) - (n + m) : c[k] = s[(n + m) + k]
  BY <1>1, Splits
<1>4. b \in Bytes /\ Len(b) = Len(a) - m /\ \A k \in 1 .. Len(a) - m : b[k] = a[m + k]
  <2>1. m \in 0 .. Len(a)
    BY <1>2
  <2> HIDE DEF a
  <2>. QED BY <1>2, <2>1, Splits
<1> HIDE DEF a, b, c
<1>5. Len(b) = Len(c)
  BY <1>1, <1>2, <1>3, <1>4
<1>6. ASSUME NEW k \in 1 .. Len(b) PROVE b[k] = c[k]
  <2>1. k \in 1 .. Len(a) - m /\ m + k \in 1 .. Len(s) - n /\ k \in 1 .. Len(s) - (n + m)
        /\ n + (m + k) = (n + m) + k
    BY <1>1, <1>2, <1>4
  <2>. QED BY <1>2, <1>3, <1>4, <2>1
<1>7. b = c
  BY <1>3, <1>4, <1>5, <1>6, SameBytes
<1>. QED BY <1>7 DEF a, b, c

\* What is in front and what is behind.
LEMMA InFront ==
  ASSUME NEW a \in Bytes, NEW b \in Bytes
  PROVE  /\ a \o b \in Bytes /\ Len(a \o b) = Len(a) + Len(b)
         /\ \A k \in 1 .. Len(a) : (a \o b)[k] = a[k]
         /\ \A k \in 1 .. Len(b) : (a \o b)[Len(a) + k] = b[k]
         /\ SubSeq(a \o b, 1, Len(a)) = a /\ From(a \o b, Len(a)) = b
<1> DEFINE c == a \o b
           n == Len(a)
<1>1. c \in Bytes /\ Len(c) = n + Len(b) /\ n \in Nat /\ Len(b) \in Nat
  BY DEF Bytes
<1>2. (\A k \in 1 .. n : c[k] = a[k]) /\ (\A k \in 1 .. Len(b) : c[n + k] = b[k])
  BY DEF Bytes
<1> HIDE DEF c
<1>3. n \in 0 .. Len(c) /\ Len(c) - n = Len(b) /\ Len(a) = n
  BY <1>1
<1> HIDE DEF n
<1>4. From(c, n) \in Bytes /\ Len(From(c, n)) = Len(b) /\ \A k \in 1 .. Len(b) : From(c, n)[k] = c[n + k]
  BY <1>1, <1>3, Splits, SMTT(30)
<1>5. SubSeq(c, 1, n) \in Bytes /\ Len(SubSeq(c, 1, n)) = n
      /\ \A k \in 1 .. n : SubSeq(c, 1, n)[k] = c[k]
  BY <1>1, <1>3, Splits, SMTT(30)
<1>6. From(c, n) = b
  BY <1>2, <1>4, SameBytes
<1>7. SubSeq(c, 1, n) = a
  BY <1>2, <1>3, <1>5, SameBytes
<1>. QED BY <1>1, <1>2, <1>6, <1>7 DEF c, n

\* Putting together is associative.
Associates(a, b, c) ==
  /\ (a \o b) \o c = a \o (b \o c)
  /\ a \o b \in Bytes
  /\ b \o c \in Bytes

\* Whatever bytes there are, they associate.
LEMMA Together ==
  ASSUME NEW a \in Bytes, NEW b \in Bytes, NEW c \in Bytes
  PROVE  Associates(a, b, c)
<1>1. (a \o b) \o c = a \o (b \o c) /\ a \o b \in Bytes /\ b \o c \in Bytes
  BY ConcatAssociative DEF Bytes
<1>. QED BY <1>1 DEF Associates

\* So do lists of them.
Joins(u, v, w) == (u \o v) \o w = u \o (v \o w)

\* Whatever lists there are, they join in one way.
LEMMA JoinedTogether ==
  ASSUME NEW u \in Seq(Bytes), NEW v \in Seq(Bytes), NEW w \in Seq(Bytes)
  PROVE  Joins(u, v, w)
<1>1. (u \o v) \o w = u \o (v \o w)
  BY SMTT(30)
<1>. QED BY <1>1, Zenon DEF Joins

\* Two ways to cut the same bytes: what comes first is alike as far as both go.
LEMMA Overlap ==
  ASSUME NEW p \in Bytes, NEW more \in Bytes, NEW f \in Bytes, NEW rest \in Bytes,
         p \o more = f \o rest
  PROVE  \A k \in 1 .. Len(f) : k <= Len(p) => p[k] = f[k]
<1>1. Len(p) \in Nat /\ Len(f) \in Nat /\ Len(more) \in Nat /\ Len(rest) \in Nat
  BY DEF Bytes
<1>2. ASSUME NEW k \in 1 .. Len(f), k <= Len(p) PROVE p[k] = f[k]
  <2>1. k \in 1 .. Len(p)
    BY <1>1, <1>2
  <2>2. (p \o more)[k] = p[k] /\ (f \o rest)[k] = f[k]
    BY <2>1, InFront
  <2>. QED BY <2>2
<1>. QED BY <1>2

\* p has all of f, of the bytes that both begin.
Begins(p, more, f, rest) ==
  /\ p \in Bytes /\ more \in Bytes /\ f \in Bytes /\ rest \in Bytes
  /\ p \o more = f \o rest /\ Len(p) >= Len(f)

\* And what is behind the one is the rest of the other.
LEMMA Behind ==
  \A p, more, f, rest : Begins(p, more, f, rest) =>
    /\ Len(f) \in 0 .. Len(p) /\ p = f \o From(p, Len(f))
    /\ From(p, Len(f)) \in Bytes /\ From(p, Len(f)) \o more = rest
<1> SUFFICES ASSUME NEW p, NEW more, NEW f, NEW rest, Begins(p, more, f, rest)
             PROVE  /\ Len(f) \in 0 .. Len(p) /\ p = f \o From(p, Len(f))
                    /\ From(p, Len(f)) \in Bytes /\ From(p, Len(f)) \o more = rest
  BY Zenon
<1>0. /\ p \in Bytes /\ more \in Bytes /\ f \in Bytes /\ rest \in Bytes
      /\ p \o more = f \o rest /\ Len(p) >= Len(f)
  BY DEF Begins
<1> DEFINE q == From(p, Len(f))
<1>1. Len(p) \in Nat /\ Len(f) \in Nat /\ Len(f) \in 0 .. Len(p)
  BY <1>0, BytesLength
<1>2. q \in Bytes /\ SubSeq(p, 1, Len(f)) \o q = p
      /\ SubSeq(p, 1, Len(f)) \in Bytes /\ Len(SubSeq(p, 1, Len(f))) = Len(f)
      /\ \A k \in 1 .. Len(f) : SubSeq(p, 1, Len(f))[k] = p[k]
  BY <1>0, <1>1, Splits
<1>3. \A k \in 1 .. Len(f) : k <= Len(p)
  BY <1>1
<1>4. \A k \in 1 .. Len(f) : SubSeq(p, 1, Len(f))[k] = f[k]
  BY <1>0, <1>2, <1>3, Overlap
<1>5. SubSeq(p, 1, Len(f)) = f
  BY <1>0, <1>2, <1>4, SameBytes
<1>6. p = f \o q
  BY <1>2, <1>5
<1> HIDE DEF q
<1>7. (f \o q) \o more = f \o (q \o more) /\ q \o more \in Bytes
  <2>1. Associates(f, q, more)
    BY <1>0, <1>2, Together
  <2>. QED BY <2>1, Zenon DEF Associates
<1>8. From(f \o (q \o more), Len(f)) = q \o more
  BY <1>0, <1>7, InFront
<1>9. From(f \o rest, Len(f)) = rest
  BY <1>0, InFront
<1>10. f \o (q \o more) = f \o rest
  BY <1>0, <1>6, <1>7
<1>11. q \o more = rest
  BY <1>8, <1>9, <1>10
<1>. QED BY <1>1, <1>2, <1>6, <1>11 DEF q

-------------------------------------------------------------------------------
(* The frame in front                                                         *)

Partial == [is |-> "partial"]
Invalid == [is |-> "invalid"]
Whole(size, body) == [is |-> "whole", size |-> size, body |-> body]

\* What a frame's length makes of the bytes behind it.
LEMMA FrameInIs ==
  ASSUME NEW b \in Bytes, NEW max, NEW v \in Int, NEW n \in 0 .. Len(b), NEW err,
         readVarInt(b) = Result(v, n, err)
  PROVE  FrameIn(b, max) =
           IF err = "EOF" THEN Partial
           ELSE IF err # "none" \/ v < 1 \/ v > max THEN Invalid
           ELSE IF Len(b) - n < v THEN Partial
           ELSE Whole(n + v, SubSeq(From(b, n), 1, v))
<1>1. Result(v, n, err).err = err /\ Result(v, n, err).value = v /\ Result(v, n, err).size = n
  BY DEF Result
<1>2. Len(From(b, n)) = Len(b) - n
  BY Splits
<1> DEFINE length == readVarInt(b)
<1>3. length.err = err /\ length.value = v /\ length.size = n
  BY <1>1
<1>4. FrameIn(b, max) =
        IF length.err = "EOF" THEN Partial
        ELSE IF length.err # "none" \/ length.value < 1 \/ length.value > max THEN Invalid
        ELSE IF Len(From(b, length.size)) < length.value THEN Partial
        ELSE Whole(length.size + length.value, SubSeq(From(b, length.size), 1, length.value))
  BY Zenon DEF FrameIn, Partial, Invalid, Whole
<1> HIDE DEF length
<1>. QED BY <1>2, <1>3, <1>4

\* A length that is still arriving.
LEMMA FrameInEOF ==
  ASSUME NEW b \in Bytes, NEW max, NEW n \in 0 .. Len(b), readVarInt(b) = Result(0, n, "EOF")
  PROVE  FrameIn(b, max) = Partial
<1>1. FrameIn(b, max) =
        IF "EOF" = "EOF" THEN Partial
        ELSE IF "EOF" # "none" \/ 0 < 1 \/ 0 > max THEN Invalid
        ELSE IF Len(b) - n < 0 THEN Partial
        ELSE Whole(n + 0, SubSeq(From(b, n), 1, 0))
  <2>1. 0 \in Int
    OBVIOUS
  <2>. QED BY <2>1, FrameInIs, Zenon
<1>. QED BY <1>1

\* And one that is there.
LEMMA FrameInLength ==
  ASSUME NEW b \in Bytes, NEW max, NEW v \in Int, NEW n \in 0 .. Len(b),
         readVarInt(b) = Result(v, n, "none")
  PROVE  FrameIn(b, max) =
           IF v < 1 \/ v > max THEN Invalid
           ELSE IF Len(b) - n < v THEN Partial
           ELSE Whole(n + v, SubSeq(From(b, n), 1, v))
<1>1. FrameIn(b, max) =
        IF "none" = "EOF" THEN Partial
        ELSE IF "none" # "none" \/ v < 1 \/ v > max THEN Invalid
        ELSE IF Len(b) - n < v THEN Partial
        ELSE Whole(n + v, SubSeq(From(b, n), 1, v))
  BY FrameInIs, Zenon
<1>2. "none" # "EOF"
  OBVIOUS
<1>. QED BY <1>1, <1>2, Zenon

\* What there can be in front, and that a whole frame is more than nothing.
LEMMA FrameInType ==
  ASSUME NEW b \in Bytes, NEW max \in Int
  PROVE  \/ FrameIn(b, max) = Partial /\ (max >= 0 => Len(b) < max + MaxSize)
         \/ FrameIn(b, max) = Invalid
         \/ \E size \in 1 .. Len(b), body \in Bytes : FrameIn(b, max) = Whole(size, body)
<1>1. PICK v \in Int, n \in 0 .. Len(b), err \in {"none", "EOF", "VarInt too big"} :
        /\ readVarInt(b) = Result(v, n, err) /\ n <= MaxSize
        /\ err = "EOF" => Len(b) < MaxSize
  BY readVarIntType DEF Bytes
<1>2. FrameIn(b, max) =
        IF err = "EOF" THEN Partial
        ELSE IF err # "none" \/ v < 1 \/ v > max THEN Invalid
        ELSE IF Len(b) - n < v THEN Partial
        ELSE Whole(n + v, SubSeq(From(b, n), 1, v))
  BY <1>1, FrameInIs
<1>3. Len(b) \in Nat /\ MaxSize \in Nat
  <2>1. Len(b) \in Nat
    BY BytesLength
  <2>. QED BY <2>1, MaxSizeIs
<1>4. CASE err = "EOF"
  <2>1. Len(b) < MaxSize /\ (max >= 0 => Len(b) < max + MaxSize)
    BY <1>1, <1>3, <1>4
  <2>. QED BY <1>2, <1>4, <2>1
<1>5. CASE err # "EOF" /\ (err # "none" \/ v < 1 \/ v > max)
  BY <1>2, <1>5
<1>6. CASE err = "none" /\ ~(v < 1) /\ ~(v > max) /\ Len(b) - n < v
  <2>1. Len(b) < max + MaxSize
    BY <1>1, <1>3, <1>6
  <2>. QED BY <1>2, <1>6, <2>1
<1>7. CASE err = "none" /\ ~(v < 1) /\ ~(v > max) /\ ~(Len(b) - n < v)
  <2>1. n + v \in 1 .. Len(b) /\ v \in 0 .. Len(b) - n
    BY <1>3, <1>7
  <2>2. From(b, n) \in Bytes /\ Len(From(b, n)) = Len(b) - n
    BY Splits
  <2>3. SubSeq(From(b, n), 1, v) \in Bytes
    BY <2>1, <2>2, Splits
  <2>4. FrameIn(b, max) = Whole(n + v, SubSeq(From(b, n), 1, v))
    BY <1>2, <1>7
  <2>. QED BY <2>1, <2>3, <2>4
<1>. QED BY <1>4, <1>5, <1>6, <1>7

\* A length is written in bytes that end, in front of the body.
LEMMA FrameBytes ==
  ASSUME NEW x \in Bytes, Len(x) \in Int32
  PROVE  /\ Frame(x) \in Bytes /\ Len(Frame(x)) \in Nat \ {0}
         /\ LET a == AppendVarInt(<<>>, Len(x))
            IN  /\ Ends(a) /\ ToSigned(Sums(a)[Len(a)]) = Len(x)
                /\ a \in Bytes /\ Frame(x) = a \o x /\ Len(Frame(x)) = Len(a) + Len(x)
<1> DEFINE a == AppendVarInt(<<>>, Len(x))
<1>1. Ends(a) /\ ToSigned(Sums(a)[Len(a)]) = Len(x)
  BY AppendVarIntEnds
<1>2. Frame(x) = a \o x
  BY DEF Frame
<1> HIDE DEF a
<1>3. a \in Bytes /\ Len(a) >= 1 /\ Len(a) \in Nat /\ Len(x) \in Nat
  BY <1>1 DEF Ends, Bytes
<1>4. a \o x \in Bytes /\ Len(a \o x) = Len(a) + Len(x)
  BY <1>3, InFront
<1>5. Len(a) + Len(x) \in Nat \ {0}
  BY <1>3
<1>6. Frame(x) \in Bytes /\ Len(Frame(x)) \in Nat \ {0}
  BY <1>2, <1>4, <1>5
<1>7. Len(Frame(x)) = Len(a) + Len(x)
  BY <1>2, <1>4
<1>. QED BY <1>1, <1>2, <1>3, <1>6, <1>7 DEF a

\* p is of a frame of x and what is behind it, and more is the rest of that.
Arrives(x, max, p, more, rest) ==
  /\ x \in Bytes /\ max \in Int /\ Len(x) <= max /\ Len(x) \in Int32
  /\ p \in Bytes /\ more \in Bytes /\ rest \in Bytes /\ p \o more = Frame(x) \o rest

\* What is found of the frame in front while it arrives, and when it has.
LEMMA FrameAhead ==
  \A x, max, p, more, rest : Arrives(x, max, p, more, rest) =>
    IF Len(p) < Len(Frame(x)) THEN FrameIn(p, max) = Partial
    ELSE IF x = <<>> THEN FrameIn(p, max) = Invalid
    ELSE /\ FrameIn(p, max) = Whole(Len(Frame(x)), x)
         /\ Len(Frame(x)) \in 0 .. Len(p) /\ From(p, Len(Frame(x))) \o more = rest
<1> SUFFICES
      ASSUME NEW x, NEW max, NEW p, NEW more, NEW rest, Arrives(x, max, p, more, rest)
      PROVE  IF Len(p) < Len(Frame(x)) THEN FrameIn(p, max) = Partial
             ELSE IF x = <<>> THEN FrameIn(p, max) = Invalid
             ELSE /\ FrameIn(p, max) = Whole(Len(Frame(x)), x)
                  /\ Len(Frame(x)) \in 0 .. Len(p) /\ From(p, Len(Frame(x))) \o more = rest
  BY Zenon
<1>0. /\ x \in Bytes /\ max \in Int /\ Len(x) <= max /\ Len(x) \in Int32
      /\ p \in Bytes /\ more \in Bytes /\ rest \in Bytes /\ p \o more = Frame(x) \o rest
  BY DEF Arrives
<1> DEFINE a == AppendVarInt(<<>>, Len(x))
           f == Frame(x)
           q == From(p, Len(a))
<1>1. Ends(a) /\ ToSigned(Sums(a)[Len(a)]) = Len(x) /\ a \in Bytes /\ f = a \o x
      /\ Len(f) = Len(a) + Len(x) /\ f \in Bytes
  BY <1>0, FrameBytes
<1> HIDE DEF a, f
<1>2. Len(a) \in Nat /\ Len(x) \in Nat /\ Len(p) \in Nat /\ Len(f) \in Nat /\ Len(f) >= Len(a)
  BY <1>0, <1>1, BytesLength
<1>3. p \o more = f \o rest
  BY <1>0 DEF f
<1>4. p \o more = a \o (x \o rest) /\ x \o rest \in Bytes
  <2>1. a \in Bytes /\ f = a \o x
    BY <1>1
  <2>2. (a \o x) \o rest = a \o (x \o rest) /\ x \o rest \in Bytes
    <3>1. Associates(a, x, rest)
      BY <1>0, <2>1, Together
    <3>. QED BY <3>1, Zenon DEF Associates
  <2>. QED BY <1>3, <2>1, <2>2
<1>5. CASE Len(p) < Len(a)
  <2>1. \A k \in 1 .. Len(p) : k \in 1 .. Len(a) /\ k <= Len(p)
    BY <1>2, <1>5
  <2>2. \A k \in 1 .. Len(p) : p[k] = a[k]
    BY <1>0, <1>1, <1>4, <2>1, Overlap
  <2>3. readVarInt(p) = Result(0, Len(p), "EOF")
    BY <1>0, <1>1, <1>5, <2>2, EndsMissing DEF Bytes
  <2>4. Len(p) \in 0 .. Len(p) /\ Len(p) < Len(f)
    BY <1>2, <1>5
  <2>5. FrameIn(p, max) = Partial
    BY <1>0, <2>3, <2>4, FrameInEOF
  <2>. QED BY <2>4, <2>5 DEF f
<1>6. CASE ~(Len(p) < Len(a))
  <2>1. Len(a) \in 0 .. Len(p) /\ p = a \o q /\ q \o more = x \o rest
    <3>1. Len(p) >= Len(a)
      BY <1>2, <1>6
    <3>2. Begins(p, more, a, x \o rest)
      BY <1>0, <1>1, <1>4, <3>1 DEF Begins
    <3>3. Len(a) \in 0 .. Len(p) /\ p = a \o From(p, Len(a)) /\ From(p, Len(a)) \o more = x \o rest
      <4> DEFINE r == x \o rest
      <4>1. Begins(p, more, a, r)
        BY <3>2
      <4> HIDE DEF r
      <4>2. Len(a) \in 0 .. Len(p) /\ p = a \o From(p, Len(a)) /\ From(p, Len(a)) \o more = r
        BY <4>1, Behind
      <4>. QED BY <4>2 DEF r
    <3>. QED BY <3>3
  <2>2. q \in Bytes /\ Len(q) = Len(p) - Len(a)
    BY <1>0, <2>1, Splits
  <2>3. readVarInt(p) = Result(Len(x), Len(a), "none")
    <3> HIDE DEF q
    <3>1. readVarInt(a \o q) = Result(Len(x), Len(a), "none")
      BY <1>0, <1>1, <2>2, EndsRead DEF Bytes
    <3>. QED BY <2>1, <3>1
  <2>4. FrameIn(p, max) = IF Len(x) < 1 \/ Len(x) > max THEN Invalid
                          ELSE IF Len(p) - Len(a) < Len(x) THEN Partial
                          ELSE Whole(Len(a) + Len(x), SubSeq(q, 1, Len(x)))
    <3>1. Len(x) \in Int
      BY <1>2
    <3>. QED BY <1>0, <2>1, <2>3, <3>1, FrameInLength
  <2>5. CASE x = <<>>
    <3>1. Len(x) = 0 /\ ~(Len(p) < Len(f))
      BY <1>1, <1>2, <1>6, <2>5
    <3>. QED BY <2>4, <2>5, <3>1 DEF f
  <2>6. CASE x # <<>>
    <3>1. ~(Len(x) < 1) /\ ~(Len(x) > max)
      BY <1>0, <1>2, <2>6 DEF Bytes
    <3>2. CASE Len(p) < Len(f)
      <4>1. Len(p) - Len(a) < Len(x)
        BY <1>1, <1>2, <3>2
      <4>. QED BY <2>4, <3>1, <3>2, <4>1 DEF f
    <3>3. CASE ~(Len(p) < Len(f))
      <4>1. ~(Len(p) - Len(a) < Len(x)) /\ Len(p) >= Len(f)
        BY <1>1, <1>2, <3>3
      <4>2. SubSeq(q, 1, Len(x)) = x
        <5> HIDE DEF q
        <5>1. Begins(q, more, x, rest)
          <6>1. Len(q) >= Len(x)
            BY <1>2, <2>2, <4>1
          <6>. QED BY <1>0, <2>1, <2>2, <6>1 DEF Begins
        <5>2. q = x \o From(q, Len(x)) /\ Len(x) \in 0 .. Len(q)
          BY <5>1, Behind
        <5>3. From(q, Len(x)) \in Bytes
          BY <2>2, <5>2, Splits
        <5>4. SubSeq(x \o From(q, Len(x)), 1, Len(x)) = x
          BY <1>0, <5>3, InFront
        <5>. QED BY <5>2, <5>4
      <4>3. FrameIn(p, max) = Whole(Len(f), x)
        BY <1>1, <2>4, <3>1, <4>1, <4>2
      <4>4. Len(f) \in 0 .. Len(p) /\ From(p, Len(f)) \o more = rest
        <5>1. Begins(p, more, f, rest)
          BY <1>0, <1>1, <1>3, <4>1 DEF Begins
        <5>. QED BY <5>1, Behind
      <4>. QED BY <2>6, <3>3, <4>3, <4>4 DEF f
    <3>. QED BY <3>2, <3>3
  <2>. QED BY <2>5, <2>6
<1>. QED BY <1>5, <1>6

-------------------------------------------------------------------------------
(* What is in a frame                                                         *)

Packets == Bodies \cup {Hello}
Replies == Spoken \cup {Hello}
Limits == {MaxPacketSize, maxPrePlayPacketSize}

\* The limits that may be in force where a packet is read.
Room(body) == IF body \in Replies THEN Limits ELSE {MaxPacketSize}

\* They are limits, and the one of play is always one of them.
LEMMA RoomIs ==
  /\ \A body \in Packets : MaxPacketSize \in Room(body) /\ Room(body) \subseteq Limits
  /\ \A body \in Replies : body \in Packets /\ Room(body) = Limits
  BY BodiesAssumption DEF Room, Limits, Packets, Replies

\* The lengths that may be written.
LEMMA Lengths ==
  /\ 0 \in Int32 /\ MaxPacketSize \in Nat /\ maxPrePlayPacketSize \in Nat
  /\ \A n \in Nat : n <= maxPrePlayPacketSize => n <= MaxPacketSize
  /\ \A n \in Nat : n <= MaxPacketSize => n \in Int32
<1> DEFINE h == Range32 \div 2
<1>1. h \in Nat /\ h >= 1
  BY Widths
<1>2. Int32 = (-h) .. (h - 1)
  BY DEF Int32
<1>3. MaxPacketSize \in Nat /\ maxPrePlayPacketSize \in Nat /\ maxPrePlayPacketSize <= MaxPacketSize
      /\ MaxPacketSize \in Int32
  BY SizesAssumption
<1> HIDE DEF h
<1>. QED BY <1>1, <1>2, <1>3

\* A body between its header and its checksum.
LEMMA Compressed ==
  ASSUME NEW body \in Bytes
  PROVE  /\ Compress(body) \in Bytes /\ Len(Compress(body)) = Len(body) + 2
         /\ SubSeq(Compress(body), 2, Len(body) + 1) = body
<1>1. Header \in ByteValues /\ Checksum \in ByteValues
  BY Widths DEF Header, Checksum, ByteValues
<1> DEFINE h == <<Header>>
           c == <<Checksum>>
           d == Compress(body)
<1>2. h \in Bytes /\ c \in Bytes /\ Len(h) = 1 /\ Len(c) = 1
  BY <1>1 DEF Bytes
<1>3. d = (h \o body) \o c
  BY DEF Compress
<1>4. Len(body) \in Nat
  BY BytesLength
<1> HIDE DEF h, c, d
<1>5. h \o body \in Bytes /\ Len(h \o body) = 1 + Len(body)
      /\ \A k \in 1 .. Len(body) : (h \o body)[1 + k] = body[k]
  <2>1. h \o body \in Bytes /\ Len(h \o body) = Len(h) + Len(body)
        /\ \A k \in 1 .. Len(body) : (h \o body)[Len(h) + k] = body[k]
    BY <1>2, InFront
  <2>. QED BY <1>2, <2>1, Zenon
<1>6. d \in Bytes /\ Len(d) = Len(body) + 2 /\ \A k \in 1 .. 1 + Len(body) : d[k] = (h \o body)[k]
  <2>1. d \in Bytes /\ Len(d) = Len(h \o body) + Len(c)
        /\ \A k \in 1 .. Len(h \o body) : d[k] = (h \o body)[k]
    <3> DEFINE hb == h \o body
    <3> HIDE DEF hb
    <3>1. hb \in Bytes /\ d = hb \o c
      BY <1>3, <1>5 DEF hb
    <3>2. /\ hb \o c \in Bytes /\ Len(hb \o c) = Len(hb) + Len(c)
          /\ \A k \in 1 .. Len(hb) : (hb \o c)[k] = hb[k]
      BY <1>2, <3>1, InFront
    <3>. QED BY <3>1, <3>2, Zenon DEF hb
  <2>. QED BY <1>2, <1>4, <1>5, <2>1
<1> DEFINE m == SubSeq(d, 2, Len(body) + 1)
<1>7. m \in Bytes /\ Len(m) = Len(body) /\ \A k \in 1 .. Len(body) : m[k] = d[k + 1]
  <2>1. d \in Bytes /\ Len(d) = Len(body) + 2
    BY <1>6
  <2>. QED BY <1>4, <2>1 DEF Bytes
<1> HIDE DEF m
<1>8. ASSUME NEW k \in 1 .. Len(m) PROVE m[k] = body[k]
  <2>1. k \in 1 .. Len(body) /\ k + 1 \in 1 .. 1 + Len(body) /\ k + 1 = 1 + k
    BY <1>4, <1>7, <1>8
  <2>. QED BY <1>5, <1>6, <1>7, <2>1
<1>9. m = body
  BY <1>7, <1>8, SameBytes
<1>. QED BY <1>6, <1>9 DEF m, d

\* It inflates to what it was, for the size it was.
LEMMA Decompresses ==
  ASSUME NEW body \in Bytes
  PROVE  /\ Decompress(Compress(body), Len(body)) = Made(body)
         /\ Decompress(Compress(body), Len(body) + 1) = Failed
<1> DEFINE d == Compress(body)
           n == Len(body)
<1>1. d \in Bytes /\ Len(d) = n + 2 /\ SubSeq(d, 2, n + 1) = body /\ d = Compress(body)
  BY Compressed
<1>2. n \in Nat
  BY BytesLength
<1> HIDE DEF d, n
<1>3. n >= 0 /\ Len(d) = n + 2 /\ Len(d) # (n + 1) + 2
  <2>1. Len(d) = n + 2
    BY <1>1
  <2>. QED BY <1>2, <2>1
<1>4. d = Compress(SubSeq(d, 2, n + 1))
  BY <1>1, Zenon
<1>. QED BY <1>1, <1>3, <1>4 DEF Decompress, d, n

\* The size in front of a payload is read back, and the payload is behind it.
LEMMA SizeInFront ==
  ASSUME NEW size \in Int32, NEW payload \in Bytes
  PROVE  LET a == AppendVarInt(<<>>, size)
             b == AppendVarInt(<<>>, size) \o payload
         IN  /\ b \in Bytes /\ a \in Bytes /\ Len(b) = Len(a) + Len(payload)
             /\ Len(a) \in 0 .. Len(b) /\ From(b, Len(a)) = payload
             /\ readVarInt(b) = Result(size, Len(a), "none")
<1> DEFINE a == AppendVarInt(<<>>, size)
<1>1. Ends(a) /\ ToSigned(Sums(a)[Len(a)]) = size
  BY AppendVarIntEnds
<1> HIDE DEF a
<1>2. a \in Bytes
  BY <1>1 DEF Ends, Bytes
<1>3. a \o payload \in Bytes /\ Len(a \o payload) = Len(a) + Len(payload)
      /\ From(a \o payload, Len(a)) = payload
  <2>1. a \in Bytes /\ payload \in Bytes
    BY <1>2
  <2>. QED BY <2>1, InFront
<1>4. readVarInt(a \o payload) = Result(size, Len(a), "none")
  BY <1>1, EndsRead DEF Bytes
<1>5. Len(a) \in 0 .. Len(a \o payload)
  <2>1. Len(a) \in Nat /\ Len(payload) \in Nat
    BY <1>2, BytesLength
  <2>. QED BY <1>3, <2>1
<1>. QED BY <1>2, <1>3, <1>4, <1>5 DEF a

\* What DecompressBody makes of the size it reads.
LEMMA DecompressBodyIs ==
  ASSUME NEW b, NEW v, NEW n, readVarInt(b) = Result(v, n, "none"), NEW t, NEW max
  PROVE  DecompressBody(b, t, max) = IF v = 0 THEN Made(From(b, n))
                                     ELSE IF v < t \/ v > max THEN Failed
                                     ELSE Decompress(From(b, n), v)
<1> DEFINE size == readVarInt(b)
<1>1. size.err = "none" /\ size.value = v /\ size.size = n
  BY DEF Result
<1>2. DecompressBody(b, t, max) =
        IF size.err # "none" THEN Failed
        ELSE IF size.value = 0 THEN Made(From(b, size.size))
        ELSE IF size.value < t \/ size.value > max THEN Failed
        ELSE Decompress(From(b, size.size), size.value)
  BY Zenon DEF DecompressBody
<1> HIDE DEF size
<1>3. CASE v = 0
  BY <1>1, <1>2, <1>3, Zenon
<1>4. CASE v # 0 /\ (v < t \/ v > max)
  BY <1>1, <1>2, <1>4, Zenon
<1>5. CASE v # 0 /\ ~(v < t \/ v > max)
  BY <1>1, <1>2, <1>5, Zenon
<1>. QED BY <1>3, <1>4, <1>5, Zenon

\* The packets in play, and the room a frame has for them.
LEMMA PacketsFit ==
  ASSUME NEW body \in Packets, NEW max \in Room(body)
  PROVE  /\ body \in Bytes /\ Len(body) \in Nat /\ Len(body) >= 1 /\ Len(body) + 1 <= max
         /\ \A size \in {0, Len(body), Len(body) + 1} :
              /\ size \in Int32
              /\ Len(AppendVarInt(<<>>, size) \o body) <= max
              /\ Len(AppendVarInt(<<>>, size) \o Compress(body)) <= max
<1>1. body \in Bytes /\ body # <<>>
  <2>1. CASE body \in Bodies
    BY <2>1, BodiesAssumption DEF Bytes
  <2>2. CASE body = Hello
    <3>1. 1 \in ByteValues
      BY Widths DEF ByteValues
    <3>2. <<1>> \in Seq(ByteValues) /\ <<1>> # <<>>
      BY <3>1
    <3>. QED BY <2>2, <3>2 DEF Hello, Bytes
  <2>. QED BY <2>1, <2>2 DEF Packets
<1>2. Len(body) \in Nat /\ Len(body) >= 1
  BY <1>1 DEF Bytes
<1> DEFINE least == IF body \in Replies THEN maxPrePlayPacketSize ELSE MaxPacketSize
<1>3. max \in Nat /\ least \in Nat /\ least <= max /\ max <= MaxPacketSize /\ MaxPacketSize \in Nat
  BY SizesAssumption DEF Limits, Room
<1>8. \A size \in {0, Len(body), Len(body) + 1} :
        Len(AppendVarInt(<<>>, size)) + Len(Compress(body)) <= least
  <2>1. KeepsTo(body, least)
    BY FitsAssumption DEF Packets, Replies
  <2>. QED BY <2>1 DEF KeepsTo
<1> HIDE DEF least
<1>4. Compress(body) \in Bytes /\ Len(Compress(body)) = Len(body) + 2
  BY <1>1, Compressed
<1>5. ASSUME NEW size \in {0, Len(body), Len(body) + 1}
      PROVE  /\ size \in Nat /\ Len(body) + 1 <= max
             /\ Len(AppendVarInt(<<>>, size)) + Len(Compress(body)) <= max
             /\ size \in Int32
  <2> DEFINE a == AppendVarInt(<<>>, size)
  <2>1. Len(a) + Len(Compress(body)) <= least
    BY <1>8
  <2>2. Len(AppendVarInt(<<>>, 0)) + Len(Compress(body)) <= least
    BY <1>8
  <2>3. Len(AppendVarInt(<<>>, 0)) \in Nat
    <3>1. Ends(AppendVarInt(<<>>, 0))
      BY Lengths, AppendVarIntEnds
    <3>. QED BY <3>1 DEF Ends
  <2>4. size \in Nat /\ size <= Len(body) + 1
    BY <1>2
  <2>5. Len(body) + 2 <= least
    <3> DEFINE z == Len(AppendVarInt(<<>>, 0))
    <3>1. z \in Nat /\ z + Len(Compress(body)) <= least
      BY <2>2, <2>3
    <3> HIDE DEF z
    <3>. QED BY <1>2, <1>3, <1>4, <3>1
  <2>6. size <= MaxPacketSize
    BY <1>2, <1>3, <2>4, <2>5
  <2>7. size \in Int32
    BY <2>4, <2>6, Lengths
  <2>8. Ends(a)
    BY <2>7, AppendVarIntEnds
  <2>9. Len(a) \in Nat
    BY <2>8 DEF Ends
  <2> HIDE DEF a
  <2>10. Len(a) + Len(Compress(body)) <= max
    BY <1>2, <1>3, <1>4, <2>1, <2>9
  <2>. QED BY <1>2, <1>3, <2>4, <2>5, <2>7, <2>10 DEF a
<1>6. ASSUME NEW size \in {0, Len(body), Len(body) + 1}
      PROVE  /\ size \in Int32
             /\ Len(AppendVarInt(<<>>, size) \o body) <= max
             /\ Len(AppendVarInt(<<>>, size) \o Compress(body)) <= max
  <2> DEFINE a == AppendVarInt(<<>>, size)
  <2>1. size \in Int32 /\ Len(a) + Len(Compress(body)) <= max
    BY <1>5
  <2>2. a \in Bytes /\ Len(a \o body) = Len(a) + Len(body)
        /\ Len(a \o Compress(body)) = Len(a) + Len(Compress(body))
    BY <1>1, <1>4, <2>1, SizeInFront
  <2> HIDE DEF a
  <2>3. Len(a) \in Nat
    BY <2>2, BytesLength
  <2>4. Len(a) + Len(body) <= max
    BY <1>2, <1>3, <1>4, <2>1, <2>3
  <2>. QED BY <2>1, <2>2, <2>4 DEF a
<1>7. Len(body) + 1 <= max
  BY <1>5
<1>. QED BY <1>1, <1>2, <1>6, <1>7

\* What a reader that deflates finds in what was framed, rightly or not.
LEMMA Deflates ==
  ASSUME NEW body \in Packets, NEW t \in Thresholds, NEW max \in Room(body)
  PROVE  /\ DecompressBody(CompressBody(body, t), t, max) = Made(body)
         /\ Len(body) < t =>
              DecompressBody(AppendVarInt(<<>>, Len(body)) \o Compress(body), t, max) = Failed
         /\ Len(body) >= t =>
              DecompressBody(AppendVarInt(<<>>, Len(body) + 1) \o Compress(body), t, max) = Failed
<1>1. /\ body \in Bytes /\ Len(body) \in Nat /\ Len(body) >= 1 /\ Len(body) + 1 <= max
      /\ 0 \in Int32 /\ Len(body) \in Int32 /\ Len(body) + 1 \in Int32
  BY PacketsFit
<1>2. t \in Nat /\ max \in Nat
  BY ThresholdsAssumption, SizesAssumption, RoomIs DEF Limits
<1>3. Compress(body) \in Bytes
  BY <1>1, Compressed
<1> DEFINE n == Len(body)
           d == Compress(body)
           put(size, payload) == AppendVarInt(<<>>, size) \o payload
<1>4. ASSUME NEW size \in Int32, NEW payload \in Bytes
      PROVE  DecompressBody(put(size, payload), t, max) =
               IF size = 0 THEN Made(payload)
               ELSE IF size < t \/ size > max THEN Failed
               ELSE Decompress(payload, size)
  <2> DEFINE a == AppendVarInt(<<>>, size)
             b == put(size, payload)
  <2>1. readVarInt(b) = Result(size, Len(a), "none") /\ From(b, Len(a)) = payload
    BY SizeInFront
  <2> HIDE DEF a, b
  <2>2. DecompressBody(b, t, max) = IF size = 0 THEN Made(From(b, Len(a)))
                                    ELSE IF size < t \/ size > max THEN Failed
                                    ELSE Decompress(From(b, Len(a)), size)
    BY <2>1, DecompressBodyIs
  <2>. QED BY <2>1, <2>2 DEF b
<1> HIDE DEF d, put
<1>5. CompressBody(body, t) = IF n >= t THEN put(n, d) ELSE put(0, body)
  BY DEF CompressBody, put, d
<1>6. Decompress(d, n) = Made(body) /\ Decompress(d, n + 1) = Failed
  BY <1>1, Decompresses DEF d
<1>7. d \in Bytes /\ n \in Nat /\ n >= 1 /\ n + 1 <= max /\ n \in Int32 /\ n + 1 \in Int32
  BY <1>1, <1>3 DEF d
<1>8. DecompressBody(CompressBody(body, t), t, max) = Made(body)
  <2> HIDE DEF n
  <2>1. CASE n >= t
    <3>1. DecompressBody(put(n, d), t, max) =
            IF n = 0 THEN Made(d) ELSE IF n < t \/ n > max THEN Failed ELSE Decompress(d, n)
      BY <1>4, <1>7
    <3>2. n # 0 /\ ~(n < t) /\ ~(n > max)
      BY <1>2, <1>7, <2>1
    <3>. QED BY <1>5, <1>6, <2>1, <3>1, <3>2
  <2>2. CASE ~(n >= t)
    <3>1. DecompressBody(put(0, body), t, max) = Made(body)
      BY <1>1, <1>4
    <3>. QED BY <1>5, <2>2, <3>1
  <2>. QED BY <2>1, <2>2
<1>9. n < t => DecompressBody(put(n, d), t, max) = Failed
  <2> HIDE DEF n
  <2>1. DecompressBody(put(n, d), t, max) =
          IF n = 0 THEN Made(d) ELSE IF n < t \/ n > max THEN Failed ELSE Decompress(d, n)
    BY <1>4, <1>7
  <2>2. n # 0
    BY <1>7
  <2>. QED BY <2>1, <2>2
<1>10. n >= t => DecompressBody(put(n + 1, d), t, max) = Failed
  <2> HIDE DEF n
  <2>1. DecompressBody(put(n + 1, d), t, max) =
          IF n + 1 = 0 THEN Made(d)
          ELSE IF n + 1 < t \/ n + 1 > max THEN Failed ELSE Decompress(d, n + 1)
    BY <1>4, <1>7
  <2>2. n + 1 # 0
    BY <1>7
  <2>. QED BY <1>6, <2>1, <2>2
<1>. QED BY <1>8, <1>9, <1>10 DEF put, d

\* A compressed frame is the frame of its size and payload.
LEMMA CompressedFrameIs ==
  ASSUME NEW size \in Int32, NEW payload \in Bytes
  PROVE  CompressedFrame(size, payload) = Frame(AppendVarInt(<<>>, size) \o payload)
<1> DEFINE s == AppendVarInt(<<>>, size)
           n == Len(s) + Len(payload)
           a == AppendVarInt(<<>>, n)
<1>1. s \in Bytes /\ Len(s \o payload) = n
  BY SizeInFront
<1>2. CompressedFrame(size, payload) = (a \o s) \o payload
  BY Zenon DEF CompressedFrame
<1>3. Frame(s \o payload) = a \o (s \o payload)
  BY <1>1 DEF Frame
<1>4. a \in Bytes
  <2>1. n \in Nat
    <3>1. Len(s) \in Nat /\ Len(payload) \in Nat
      BY <1>1, BytesLength
    <3>. QED BY <3>1
  <2> HIDE DEF n
  <2>2. a \in Bytes
    BY <2>1, AppendVarIntBytes DEF Bytes
  <2>. QED BY <2>2
<1> HIDE DEF s, a
<1>5. Associates(a, s, payload)
  <2>1. s \in Bytes
    BY <1>1 DEF s
  <2>. QED BY <1>4, <2>1, Together
<1>6. (a \o s) \o payload = a \o (s \o payload)
  BY <1>5, Zenon DEF Associates
<1>7. CompressedFrame(size, payload) = Frame(s \o payload)
  BY <1>2, <1>3, <1>6
<1>. QED BY <1>7, Zenon DEF s

\* What is in the frame of a body, for a threshold that may be Off.
Inner(body, form, t) ==
  CASE form = "empty" -> <<>>
    [] form = "fit" -> IF t = Off THEN body ELSE CompressBody(body, t)
    [] form = "short" -> AppendVarInt(<<>>, Len(body)) \o Compress(body)
    [] form = "misstated" -> AppendVarInt(<<>>, Len(body) + 1) \o Compress(body)

\* A frame's body that may be written, and is read where limits are.
Fits(x, limits) == x \in Bytes /\ Len(x) \in Int32 /\ \A max \in limits : Len(x) <= max

\* It is bytes there is room for, and none only if the frame is to be empty.
LEMMA InnerFits ==
  ASSUME NEW body \in Packets, NEW form \in Forms, NEW t
  PROVE  Fits(Inner(body, form, t), Room(body)) /\ (Inner(body, form, t) = <<>> <=> form = "empty")
<1> DEFINE n == Len(body)
           d == Compress(body)
           put(size, payload) == AppendVarInt(<<>>, size) \o payload
           I == Inner(body, form, t)
<1>1. /\ body \in Bytes /\ n \in Nat /\ n >= 1 /\ 0 \in Int32 /\ n \in Int32 /\ n + 1 \in Int32
      /\ \A max \in Room(body) :
           /\ n + 1 <= max
           /\ Len(put(0, body)) <= max /\ Len(put(n, d)) <= max /\ Len(put(n + 1, d)) <= max
  <2>1. MaxPacketSize \in Room(body)
    BY RoomIs
  <2>2. /\ body \in Bytes /\ n \in Nat /\ n >= 1 /\ 0 \in Int32 /\ n \in Int32 /\ n + 1 \in Int32
    BY <2>1, PacketsFit
  <2>3. ASSUME NEW max \in Room(body)
        PROVE  /\ n + 1 <= max
               /\ Len(put(0, body)) <= max /\ Len(put(n, d)) <= max /\ Len(put(n + 1, d)) <= max
    BY PacketsFit
  <2>. QED BY <2>2, <2>3
<1>2. d \in Bytes
  BY <1>1, Compressed
<1> HIDE DEF d
<1>3. ASSUME NEW size \in Int32, NEW payload \in Bytes
      PROVE  put(size, payload) \in Bytes /\ put(size, payload) # <<>>
  <2> DEFINE a == AppendVarInt(<<>>, size)
  <2>1. a \in Bytes /\ put(size, payload) \in Bytes /\ Len(put(size, payload)) = Len(a) + Len(payload)
    BY SizeInFront
  <2>2. Ends(a)
    BY AppendVarIntEnds
  <2>3. Len(a) \in Nat /\ Len(a) >= 1
    BY <2>2 DEF Ends
  <2>4. Len(payload) \in Nat
    BY BytesLength
  <2> HIDE DEF a, put
  <2>5. Len(put(size, payload)) # 0
    BY <2>1, <2>3, <2>4
  <2>. QED BY <2>1, <2>5
<1>4. CompressBody(body, t) = IF n >= t THEN put(n, d) ELSE put(0, body)
  BY DEF CompressBody, d
<1> HIDE DEF n, put
<1>5. I \in {<<>>, body, put(n, d), put(0, body), put(n + 1, d)} /\ (I = <<>> <=> form = "empty")
  <2>1. body # <<>>
    BY <1>1 DEF n
  <2>2. put(n, d) # <<>> /\ put(0, body) # <<>> /\ put(n + 1, d) # <<>>
    BY <1>1, <1>2, <1>3
  <2>3. CompressBody(body, t) \in {put(n, d), put(0, body)}
    BY <1>4
  <2>4. CASE form = "empty"
    BY <2>4 DEF Inner
  <2>5. CASE form = "fit"
    <3>1. I = IF t = Off THEN body ELSE CompressBody(body, t)
      BY <2>5 DEF Inner
    <3>. QED BY <2>1, <2>2, <2>3, <2>5, <3>1
  <2>6. CASE form = "short"
    <3>1. I = put(n, d)
      BY <2>6 DEF Inner, put, n, d
    <3>. QED BY <2>2, <2>6, <3>1
  <2>7. CASE form = "misstated"
    <3>1. I = put(n + 1, d)
      BY <2>7 DEF Inner, put, n, d
    <3>. QED BY <2>2, <2>7, <3>1
  <2>. QED BY <2>4, <2>5, <2>6, <2>7 DEF Forms
<1> HIDE DEF I
<1>6. I \in Bytes
  <2>1. put(n, d) \in Bytes /\ put(0, body) \in Bytes /\ put(n + 1, d) \in Bytes
    BY <1>1, <1>2, <1>3
  <2>2. <<>> \in Bytes
    BY DEF Bytes
  <2>. QED BY <1>1, <1>5, <2>1, <2>2
<1>7. \A max \in Room(body) : Len(I) <= max
  <2>1. ASSUME NEW max \in Room(body) PROVE Len(I) <= max
    <3>1. max \in Nat
      BY SizesAssumption, RoomIs DEF Limits
    <3>2. Len(body) <= max
      BY <1>1, <3>1 DEF n
    <3>3. Len(<<>>) <= max
      BY <3>1
    <3>. QED BY <1>1, <1>5, <3>2, <3>3
  <2>. QED BY <2>1
<1>8. Len(I) \in Int32
  <2>1. Len(I) <= MaxPacketSize /\ Len(I) \in Nat
    BY <1>6, <1>7, BytesLength, RoomIs
  <2>. QED BY <2>1, Lengths
<1>. QED BY <1>5, <1>6, <1>7, <1>8 DEF Fits, I

\* A client frames a body so.
LEMMA InFormIs ==
  ASSUME NEW body \in Packets, NEW form \in Forms
  PROVE  InForm(body, form) = Frame(Inner(body, form, told))
<1> DEFINE n == Len(body)
           d == Compress(body)
<1>1. body \in Bytes /\ n \in Int32 /\ n + 1 \in Int32
  <2>1. MaxPacketSize \in Room(body)
    BY RoomIs
  <2>. QED BY <2>1, PacketsFit
<1>2. d \in Bytes
  BY <1>1, Compressed
<1>3. CompressedFrame(n, d) = Frame(AppendVarInt(<<>>, n) \o d)
      /\ CompressedFrame(n + 1, d) = Frame(AppendVarInt(<<>>, n + 1) \o d)
  BY <1>1, <1>2, CompressedFrameIs
<1>4. CASE form = "empty"
  BY <1>4 DEF InForm, Inner
<1>5. CASE form = "fit"
  <2>1. CASE told = Off
    BY <1>5, <2>1 DEF InForm, Inner
  <2>2. CASE told # Off
    BY <1>5, <2>2 DEF InForm, Inner
  <2>. QED BY <2>1, <2>2
<1>6. CASE form = "short"
  <2>1. InForm(body, form) = CompressedFrame(n, d)
    BY <1>6 DEF InForm
  <2>2. Inner(body, form, told) = AppendVarInt(<<>>, n) \o d
    BY <1>6 DEF Inner
  <2>. QED BY <1>3, <2>1, <2>2
<1>7. CASE form = "misstated"
  <2>1. InForm(body, form) = CompressedFrame(n + 1, d)
    BY <1>7 DEF InForm
  <2>2. Inner(body, form, told) = AppendVarInt(<<>>, n + 1) \o d
    BY <1>7 DEF Inner
  <2>. QED BY <1>3, <2>1, <2>2
<1>. QED BY <1>4, <1>5, <1>6, <1>7 DEF Forms

\* And what the server makes of it: the body, if it is framed as it should be.
LEMMA Decodes ==
  ASSUME NEW body \in Replies, NEW form \in Forms \ {"empty"}, NEW max \in Limits,
         threshold \in Thresholds \cup {Off},
         form = "short" => threshold # Off /\ Len(body) < threshold,
         form = "misstated" => threshold # Off /\ Len(body) >= threshold
  PROVE  decodeBody(Inner(body, form, threshold), max) = IF form = "fit" THEN <<body>> ELSE <<>>
<1>1. Made(body).ok /\ Made(body).body = body /\ ~Failed.ok
  BY DEF Made, Failed
<1>4. body \in Packets /\ max \in Room(body)
  BY RoomIs
<1>2. CASE threshold = Off
  <2>1. form = "fit" /\ Inner(body, form, threshold) = body
    BY <1>2 DEF Inner, Forms
  <2>. QED BY <1>1, <1>2, <2>1 DEF decodeBody
<1>3. CASE threshold # Off
  <2>1. threshold \in Thresholds
    BY <1>3
  <2> DEFINE x == Inner(body, form, threshold)
             y == DecompressBody(x, threshold, max)
  <2>2. y = IF form = "fit" THEN Made(body) ELSE Failed
    <3>1. CASE form = "fit"
      <4>1. x = CompressBody(body, threshold)
        BY <1>3, <3>1 DEF Inner
      <4>. QED BY <1>4, <2>1, <3>1, <4>1, Deflates
    <3>2. CASE form = "short"
      <4>1. x = AppendVarInt(<<>>, Len(body)) \o Compress(body)
        BY <3>2 DEF Inner
      <4>2. DecompressBody(AppendVarInt(<<>>, Len(body)) \o Compress(body), threshold, max) = Failed
        BY <1>4, <2>1, <3>2, Deflates
      <4>. QED BY <3>2, <4>1, <4>2
    <3>3. CASE form = "misstated"
      <4>1. x = AppendVarInt(<<>>, Len(body) + 1) \o Compress(body)
        BY <3>3 DEF Inner
      <4>2. DecompressBody(AppendVarInt(<<>>, Len(body) + 1) \o Compress(body), threshold, max) = Failed
        BY <1>4, <2>1, <3>3, Deflates
      <4>. QED BY <3>3, <4>1, <4>2
    <3>. QED BY <3>1, <3>2, <3>3 DEF Forms
  <2> HIDE DEF x
  <2>3. decodeBody(x, max) = IF y.ok THEN <<y.body>> ELSE <<>>
    BY <1>3 DEF decodeBody
  <2> HIDE DEF y
  <2>. QED BY <1>1, <2>2, <2>3 DEF x
<1>. QED BY <1>2, <1>3

-------------------------------------------------------------------------------
(* What one read of the reactor makes of the bytes it has                     *)

\* Nothing is made of data but bytes within it.
LEMMA DecompressIs ==
  ASSUME NEW data \in Bytes, NEW k \in Int
  PROVE  Decompress(data, k) = Failed \/ \E x \in Bytes : Decompress(data, k) = Made(x)
<1>1. CASE k >= 0 /\ Len(data) = k + 2
  <2>1. 2 \in 1 .. Len(data) + 1 /\ k + 1 \in 0 .. Len(data)
    BY <1>1
  <2>2. SubSeq(data, 2, k + 1) \in Bytes
    BY <2>1 DEF Bytes
  <2>. QED BY <2>2 DEF Decompress
<1>2. CASE ~(k >= 0 /\ Len(data) = k + 2)
  BY <1>2 DEF Decompress
<1>. QED BY <1>1, <1>2

\* What inflates, or does not, is bytes.
LEMMA DecompressBodyType ==
  ASSUME NEW b \in Bytes, NEW t, NEW max
  PROVE  DecompressBody(b, t, max).ok \in BOOLEAN /\ DecompressBody(b, t, max).body \in Bytes
<1> DEFINE Good(x) == x.ok \in BOOLEAN /\ x.body \in Bytes
           size == readVarInt(b)
<1>1. Good(Failed) /\ \A x \in Bytes : Good(Made(x))
  <2>1. <<>> \in Bytes
    BY DEF Bytes
  <2>. QED BY <2>1 DEF Failed, Made
<1> HIDE DEF Good
<1>2. PICK v \in Int, n \in 0 .. Len(b), err \in {"none", "EOF", "VarInt too big"} :
        readVarInt(b) = Result(v, n, err)
  BY readVarIntType DEF Bytes
<1>3. size.err = err /\ size.value = v /\ size.size = n
  <2>1. Result(v, n, err).err = err /\ Result(v, n, err).value = v /\ Result(v, n, err).size = n
    BY DEF Result
  <2>. QED BY <1>2, <2>1, Zenon
<1>4. From(b, n) \in Bytes
  BY Splits
<1>5. ASSUME NEW data \in Bytes, NEW k \in Int PROVE Good(Decompress(data, k))
  BY <1>1, DecompressIs
<1>6. DecompressBody(b, t, max) =
        IF size.err # "none" THEN Failed
        ELSE IF size.value = 0 THEN Made(From(b, size.size))
        ELSE IF size.value < t \/ size.value > max THEN Failed
        ELSE Decompress(From(b, size.size), size.value)
  BY Zenon DEF DecompressBody
<1> HIDE DEF size
<1>7. DecompressBody(b, t, max) \in {Failed, Made(From(b, n)), Decompress(From(b, n), v)}
  <2>1. size.size = n /\ size.value = v
    BY <1>3
  <2>. QED BY <1>6, <2>1, Zenon
<1>8. Good(DecompressBody(b, t, max))
  BY <1>1, <1>4, <1>5, <1>7
<1>. QED BY <1>8 DEF Good

\* A frame's body is one packet read, or none.
LEMMA decodeBodyType ==
  ASSUME NEW b \in Bytes, NEW max
  PROVE  decodeBody(b, max) \in Seq(Bytes)
<1> DEFINE inflated == IF threshold = Off THEN Made(b) ELSE DecompressBody(b, threshold, max)
<1>1. inflated.ok \in BOOLEAN /\ inflated.body \in Bytes
  <2>1. Made(b).ok \in BOOLEAN /\ Made(b).body \in Bytes
    BY DEF Made
  <2>. QED BY <2>1, DecompressBodyType
<1>2. decodeBody(b, max) = IF inflated.ok THEN <<inflated.body>> ELSE <<>>
  BY Zenon DEF decodeBody
<1> HIDE DEF inflated
<1>. QED BY <1>1, <1>2

\* What is left may wait: it is the head of a frame still arriving.
Waiting == {b \in Bytes : FrameIn(b, MaxPacketSize) = Partial}
Outcome(h, l, d) == [heard |-> h, left |-> l, dropped |-> d]
Outcomes == [heard : Seq(Bytes), left : Waiting, dropped : BOOLEAN]

\* Nothing may wait.
LEMMA NothingWaits == <<>> \in Waiting
<1>1. <<>> \in Bytes /\ Len(<<>>) = 0 /\ 0 \in 0 .. Len(<<>>) /\ <<>> \in Seq(ByteValues)
  BY DEF Bytes
<1>2. readVarInt(<<>>) = Result(0, 0, "EOF")
  <2>1. \A k \in 1 .. Len(<<>>) : k <= MaxSize => <<>>[k] >= Continue
    BY <1>1
  <2>2. readVarInt(<<>>) = IF Len(<<>>) >= MaxSize THEN Result(0, MaxSize, "VarInt too big")
                           ELSE Result(0, Len(<<>>), "EOF")
    BY <1>1, <2>1, ReadsNoEnd
  <2>3. ~(Len(<<>>) >= MaxSize)
    BY <1>1, MaxSizeIs
  <2>. QED BY <1>1, <2>2, <2>3
<1>3. FrameIn(<<>>, MaxPacketSize) = Partial
  BY <1>1, <1>2, FrameInEOF
<1>. QED BY <1>1, <1>3 DEF Waiting

\* What served holds, where c bytes have been consumed.
Turn(b, served, c) ==
  LET frame == FrameIn(From(b, c), MaxPacketSize)
  IN  /\ frame = Partial => served[c] = Outcome(<<>>, From(b, c), FALSE)
      /\ frame = Invalid => served[c] = Outcome(<<>>, <<>>, TRUE)
      /\ \A size \in 1 .. Len(b) - c, body \in Bytes :
           frame = Whole(size, body) =>
             served[c] = Outcome(decodeBody(body, MaxPacketSize) \o served[c + size].heard,
                                 served[c + size].left, served[c + size].dropped)

\* processPending goes from frame to frame, and what it leaves may wait.
LEMMA processPendingTurns ==
  ASSUME NEW b \in Bytes
  PROVE  \E served : /\ processPending(b) = served[0]
                     /\ \A c \in 0 .. Len(b) : served[c] \in Outcomes /\ Turn(b, served, c)
<1> DEFINE n == Len(b)
           D == 0 .. n
           In(c) == FrameIn(From(b, c), MaxPacketSize)
           Read(c) == decodeBody(In(c).body, MaxPacketSize)
           Next1(c) == c + In(c).size
           Value(g, c) ==
             LET frame == In(c)
             IN  IF frame.is = "partial"
                 THEN [heard |-> <<>>, left |-> From(b, c), dropped |-> FALSE]
                 ELSE IF frame.is = "invalid"
                 THEN [heard |-> <<>>, left |-> <<>>, dropped |-> TRUE]
                 ELSE LET rest == g[c + frame.size]
                      IN  [heard |-> decodeBody(frame.body, MaxPacketSize) \o rest.heard,
                           left |-> rest.left, dropped |-> rest.dropped]
           served == CHOOSE g : g = [c \in D |-> Value(g, c)]
           stops == {c \in D : In(c).is # "whole"}
           Stop(c) == IF In(c).is = "partial" THEN Outcome(<<>>, From(b, c), FALSE)
                      ELSE Outcome(<<>>, <<>>, TRUE)
           Step(c, o) == Outcome(Read(c) \o o.heard, o.left, o.dropped)
<1>1. processPending(b) = served[0]
  BY Zenon DEF processPending
<1>2. n \in Nat
  BY BytesLength
<1>3. ASSUME NEW c \in D
      PROVE  \/ In(c) = Partial /\ From(b, c) \in Waiting
             \/ In(c) = Invalid
             \/ \E size \in 1 .. n - c, body \in Bytes : In(c) = Whole(size, body)
  <2>1. From(b, c) \in Bytes /\ Len(From(b, c)) = n - c
    BY Splits
  <2>2. MaxPacketSize \in Int
    BY SizesAssumption
  <2> DEFINE f == From(b, c)
  <2> HIDE DEF f, n
  <2>3. \/ FrameIn(f, MaxPacketSize) = Partial
        \/ FrameIn(f, MaxPacketSize) = Invalid
        \/ \E size \in 1 .. Len(f), body \in Bytes : FrameIn(f, MaxPacketSize) = Whole(size, body)
    <3>1. f \in Bytes
      BY <2>1 DEF f
    <3>. QED BY <2>2, <3>1, FrameInType
  <2>. QED BY <2>1, <2>3 DEF f, Waiting
<1>4. ASSUME NEW c \in D, c \in stops PROVE Stop(c) \in Outcomes /\ \A g : Value(g, c) = Stop(c)
  <2>1. CASE In(c) = Partial
    <3>1. In(c).is = "partial"
      BY <2>1 DEF Partial
    <3> HIDE DEF In
    <3>2. From(b, c) \in Waiting
      BY <1>3, <2>1 DEF Partial, Invalid, Whole
    <3>3. Stop(c) \in Outcomes
      BY <3>1, <3>2 DEF Outcome, Outcomes
    <3>. QED BY <3>1, <3>3 DEF Outcome
  <2>2. CASE In(c) = Invalid
    <3>1. In(c).is = "invalid"
      BY <2>2 DEF Invalid
    <3> HIDE DEF In
    <3>2. Stop(c) \in Outcomes
      BY <3>1, NothingWaits DEF Outcome, Outcomes
    <3>. QED BY <3>1, <3>2 DEF Outcome
  <2>3. CASE \E size \in 1 .. n - c, body \in Bytes : In(c) = Whole(size, body)
    <3>1. In(c).is = "whole"
      BY <2>3 DEF Whole
    <3>. QED BY <1>4, <3>1
  <2> HIDE DEF Stop, Value, In
  <2>. QED BY <1>3, <2>1, <2>2, <2>3
<1>5. ASSUME NEW c \in D, c \notin stops
      PROVE  /\ In(c).is = "whole" /\ In(c).size \in 1 .. n - c /\ Next1(c) \in D /\ Next1(c) > c
             /\ Read(c) \in Seq(Bytes)
  <2>1. In(c).is = "whole"
    BY <1>5
  <2> HIDE DEF In
  <2>2. PICK size \in 1 .. n - c, body \in Bytes : In(c) = Whole(size, body)
    BY <1>3, <2>1 DEF Partial, Invalid
  <2>3. In(c).size = size /\ In(c).body = body
    BY <2>2 DEF Whole
  <2>4. c + size \in D /\ c + size > c
    BY <1>2
  <2>. QED BY <2>1, <2>3, <2>4, decodeBodyType
<1>6. ASSUME NEW c \in D, c \notin stops, NEW o \in Outcomes
      PROVE  Step(c, o) \in Outcomes /\ \A g : g[Next1(c)] = o => Value(g, c) = Step(c, o)
  <2>1. In(c).is = "whole" /\ Read(c) \in Seq(Bytes)
    BY <1>5, <1>6
  <2>2. o.heard \in Seq(Bytes) /\ o.left \in Waiting /\ o.dropped \in BOOLEAN
    BY DEF Outcomes
  <2>3. Step(c, o) \in Outcomes
    <3> HIDE DEF Read
    <3>1. Read(c) \o o.heard \in Seq(Bytes)
      BY <2>1, <2>2
    <3>. QED BY <2>2, <3>1 DEF Outcome, Outcomes
  <2>4. ASSUME NEW g, g[Next1(c)] = o PROVE Value(g, c) = Step(c, o)
    <3>1. Value(g, c) = Step(c, g[Next1(c)])
      <4> HIDE DEF In
      <4>. QED BY <2>1 DEF Outcome
    <3>. QED BY <2>4, <3>1
  <2>. QED BY <2>3, <2>4
<1> DEFINE rank == [c \in D |-> n - c]
           out == [c \in stops |-> Stop(c)]
           from == [c \in D \ stops |-> Next1(c)]
           step == [c \in D \ stops |-> [o \in Outcomes |-> Step(c, o)]]
<1> HIDE DEF In, Value, Stop, Step, Read, Next1
<1>7. Calls(D, Outcomes, n, rank, stops, out, from, step)
  <2>1. rank \in [D -> 0 .. n] /\ stops \subseteq D
    BY <1>2
  <2>2. out \in [stops -> Outcomes]
    BY <1>4
  <2>3. from \in [D \ stops -> D] /\ \A c \in D \ stops : rank[from[c]] < rank[c]
    <3>1. \A c \in D \ stops : Next1(c) \in D /\ n - Next1(c) < n - c
      BY <1>2, <1>5
    <3>. QED BY <3>1
  <2>4. step \in [D \ stops -> [Outcomes -> Outcomes]]
    <3>1. \A c \in D \ stops : [o \in Outcomes |-> Step(c, o)] \in [Outcomes -> Outcomes]
      BY <1>6
    <3> HIDE DEF D, stops
    <3>. QED BY <3>1
  <2>. QED BY <1>2, <2>1, <2>2, <2>3, <2>4, Zenon DEF Calls
<1>8. PICK g0 : Solves(g0, D, Outcomes, stops, out, from, step)
  <2> HIDE DEF D, rank, stops, out, from, step
  <2>. QED BY <1>7, Recursion
<1>9. ASSUME NEW c \in D PROVE g0[c] = Value(g0, c)
  <2>1. CASE c \in stops
    <3>1. g0[c] = out[c]
      BY <1>8, <2>1 DEF Solves
    <3>. QED BY <1>4, <2>1, <3>1
  <2>2. CASE c \notin stops
    <3>1. g0[c] = step[c][g0[from[c]]] /\ from[c] = Next1(c) /\ Next1(c) \in D
      BY <1>5, <1>8, <2>2 DEF Solves
    <3>2. g0[Next1(c)] \in Outcomes
      <4> HIDE DEF D
      <4>. QED BY <1>8, <3>1 DEF Solves
    <3>3. step[c] = [o \in Outcomes |-> Step(c, o)]
      BY <2>2
    <3> HIDE DEF D, stops, step, from
    <3>4. g0[c] = Step(c, g0[Next1(c)])
      BY <3>1, <3>2, <3>3
    <3>. QED BY <1>6, <2>2, <3>2, <3>4
  <2>. QED BY <2>1, <2>2
<1>10. \E g : g = [c \in D |-> Value(g, c)]
  <2>1. DOMAIN g0 = D /\ g0 = [c \in DOMAIN g0 |-> g0[c]]
    <3> HIDE DEF D
    <3>. QED BY <1>8 DEF Solves
  <2> HIDE DEF D
  <2>2. g0 = [c \in D |-> Value(g0, c)]
    BY <1>9, <2>1
  <2>. QED BY <2>2
<1>11. served = [c \in D |-> Value(served, c)]
  BY <1>10, Zenon
<1> HIDE DEF served
<1>12. \A c \in D : served[c] = Value(served, c)
  BY <1>11
<1>13. \A c \in D : served[c] \in Outcomes
  <2> DEFINE T == {j \in Nat : \A c \in D : n - c <= j => served[c] \in Outcomes}
  <2>1. ASSUME NEW j \in Int, \A c \in D : n - c < j => served[c] \in Outcomes
        PROVE  \A c \in D : n - c <= j => served[c] \in Outcomes
    <3>1. SUFFICES ASSUME NEW c \in D, n - c <= j PROVE served[c] \in Outcomes
      OBVIOUS
    <3>2. CASE c \in stops
      BY <1>4, <1>12, <3>2
    <3>3. CASE c \notin stops
      <4>1. Next1(c) \in D /\ n - Next1(c) < j
        BY <1>2, <1>5, <3>1, <3>3
      <4>2. served[Next1(c)] \in Outcomes
        BY <2>1, <4>1
      <4>3. served[c] = Step(c, served[Next1(c)])
        BY <1>6, <1>12, <3>3, <4>2
      <4>. QED BY <1>6, <3>3, <4>2, <4>3
    <3>. QED BY <3>2, <3>3
  <2>2. 0 \in T
    <3>1. \A c \in D : ~(n - c < 0)
      BY <1>2
    <3>. QED BY <2>1, <3>1
  <2>3. ASSUME NEW j \in T PROVE j + 1 \in T
    <3>1. j \in Nat /\ \A c \in D : n - c < j + 1 => n - c <= j
      BY <1>2
    <3>2. \A c \in D : n - c <= j + 1 => served[c] \in Outcomes
      BY <2>1, <3>1
    <3>. QED BY <3>1, <3>2
  <2>4. T \subseteq Nat
    OBVIOUS
  <2>5. T = Nat
    <3> HIDE DEF T
    <3>. QED BY <2>2, <2>3, <2>4, SetInduction
  <2>6. n \in T /\ \A c \in D : n - c <= n
    <3>1. n \in Nat /\ \A c \in D : n - c <= n
      BY <1>2
    <3> HIDE DEF T, n
    <3>. QED BY <2>5, <3>1
  <2>. QED BY <2>6
<1>14. ASSUME NEW c \in D PROVE Turn(b, served, c)
  <2>1. served[c] = Value(served, c)
    BY <1>12
  <2>2. CASE c \in stops
    <3>1. served[c] = Stop(c) /\ In(c).is # "whole"
      BY <1>4, <2>1, <2>2
    <3>2. In(c) = Partial => served[c] = Outcome(<<>>, From(b, c), FALSE)
      BY <3>1 DEF Stop, Partial
    <3>3. In(c) = Invalid => served[c] = Outcome(<<>>, <<>>, TRUE)
      BY <3>1 DEF Stop, Invalid
    <3>4. \A size, body : In(c) # Whole(size, body)
      BY <3>1 DEF Whole
    <3>. QED BY <3>2, <3>3, <3>4, Zenon DEF Turn, In
  <2>3. CASE c \notin stops
    <3>1. In(c).is = "whole" /\ Next1(c) \in D
      BY <1>5, <2>3
    <3>2. In(c) # Partial /\ In(c) # Invalid
      BY <3>1 DEF Partial, Invalid
    <3>3. served[c] = Step(c, served[Next1(c)])
      <4>1. served[Next1(c)] \in Outcomes
        BY <1>13, <3>1
      <4>. QED BY <1>6, <2>1, <2>3, <4>1
    <3>4. ASSUME NEW size, NEW body, In(c) = Whole(size, body)
          PROVE  served[c] = Outcome(decodeBody(body, MaxPacketSize) \o served[c + size].heard,
                                     served[c + size].left, served[c + size].dropped)
      <4>1. Next1(c) = c + size /\ Read(c) = decodeBody(body, MaxPacketSize)
        BY <3>4 DEF Next1, Read, Whole
      <4>. QED BY <3>3, <4>1, Zenon DEF Step
    <3>. QED BY <3>2, <3>4, Zenon DEF Turn, In
  <2>. QED BY <2>2, <2>3
<1>. QED BY <1>1, <1>13, <1>14

\* What is left of any bytes may wait.
LEMMA processPendingType ==
  ASSUME NEW b \in Bytes
  PROVE  processPending(b) \in Outcomes
<1>1. 0 \in 0 .. Len(b)
  BY BytesLength
<1>. QED BY <1>1, processPendingTurns

-------------------------------------------------------------------------------
(* Frames one behind the other                                                *)

(* rest[k] is what is behind the first k of n frames, inner[k] what is in the *)
(* kth: something that may be written, and read where limits are.             *)
Laid(rest, inner, n, limits) ==
  /\ n \in Nat /\ rest \in [0 .. n -> Bytes] /\ rest[n] = <<>>
  /\ \A k \in 1 .. n : Fits(inner[k], limits) /\ rest[k - 1] = Frame(inner[k]) \o rest[k]

\* One more body is behind the others.
Another(rest, inner, n, limits, x, more) ==
  /\ Laid(rest, inner, n, limits) /\ Fits(x, limits)
  /\ \A k \in 1 .. n : more[k] = inner[k]
  /\ more[n + 1] = x

\* Its frame is behind all of theirs.
LEMMA LaidBehind ==
  \A rest, inner, n, limits, x, more : Another(rest, inner, n, limits, x, more) =>
      \E longer : /\ Laid(longer, more, n + 1, limits)
                  /\ \A k \in 0 .. n : longer[k] = rest[k] \o Frame(x)
<1> SUFFICES ASSUME NEW rest, NEW inner, NEW n, NEW limits, NEW x, NEW more,
                    Another(rest, inner, n, limits, x, more)
             PROVE  \E longer : /\ Laid(longer, more, n + 1, limits)
                                /\ \A k \in 0 .. n : longer[k] = rest[k] \o Frame(x)
  BY Zenon
<1>0. /\ Laid(rest, inner, n, limits) /\ Fits(x, limits)
      /\ \A k \in 1 .. n : more[k] = inner[k]
      /\ more[n + 1] = x
  BY DEF Another
<1> DEFINE f == Frame(x)
           longer == [k \in 0 .. n + 1 |-> IF k = n + 1 THEN <<>> ELSE rest[k] \o f]
<1>1. n \in Nat /\ rest \in [0 .. n -> Bytes] /\ rest[n] = <<>>
  BY <1>0 DEF Laid
<1>2. f \in Bytes
  BY <1>0, FrameBytes DEF Fits
<1> HIDE DEF f
<1>3. <<>> \in Bytes
  BY DEF Bytes
<1>4. \A k \in 0 .. n : longer[k] = rest[k] \o f /\ rest[k] \in Bytes /\ rest[k] \o f \in Bytes
  <2>1. ASSUME NEW k \in 0 .. n
        PROVE  longer[k] = rest[k] \o f /\ rest[k] \in Bytes /\ rest[k] \o f \in Bytes
    <3>1. k \in 0 .. n + 1 /\ k # n + 1
      BY <1>1
    <3>2. rest[k] \in Bytes
      BY <1>1
    <3>3. rest[k] \o f \in Bytes
      BY <1>2, <3>2, InFront
    <3>. QED BY <3>1, <3>2, <3>3
  <2>. QED BY <2>1
<1>5. longer \in [0 .. n + 1 -> Bytes]
  <2>1. ASSUME NEW k \in 0 .. n + 1 PROVE (IF k = n + 1 THEN <<>> ELSE rest[k] \o f) \in Bytes
    <3>1. CASE k = n + 1
      BY <1>3, <3>1
    <3>2. CASE k # n + 1
      <4>1. k \in 0 .. n
        BY <1>1, <3>2
      <4>. QED BY <1>4, <3>2, <4>1
    <3>. QED BY <3>1, <3>2
  <2>. QED BY <2>1
<1>6. n + 1 \in Nat /\ longer[n + 1] = <<>>
  BY <1>1
<1>7. ASSUME NEW k \in 1 .. n + 1
      PROVE  Fits(more[k], limits) /\ longer[k - 1] = Frame(more[k]) \o longer[k]
  <2>1. CASE k = n + 1
    <3>1. k - 1 = n /\ n \in 0 .. n
      BY <1>1, <2>1
    <3>2. longer[n] = <<>> \o f
      <4>1. longer[n] = rest[n] \o f
        <5> HIDE DEF longer
        <5>. QED BY <1>4, <3>1
      <4>. QED BY <1>1, <4>1
    <3>3. <<>> \o f = f /\ f \o <<>> = f
      BY <1>2 DEF Bytes
    <3>4. more[k] = x /\ longer[k] = <<>>
      BY <1>0, <1>6, <2>1
    <3> HIDE DEF longer
    <3>. QED BY <1>0, <2>1, <3>1, <3>2, <3>3, <3>4 DEF f
  <2>2. CASE k # n + 1
    <3>1. k \in 1 .. n /\ k \in 0 .. n /\ k - 1 \in 0 .. n
      BY <1>1, <2>2
    <3>2. more[k] = inner[k] /\ Fits(inner[k], limits) /\ rest[k - 1] = Frame(inner[k]) \o rest[k]
      BY <1>0, <3>1 DEF Laid
    <3>3. longer[k - 1] = rest[k - 1] \o f /\ longer[k] = rest[k] \o f /\ rest[k] \in Bytes
      BY <1>4, <3>1
    <3>4. Frame(inner[k]) \in Bytes
      BY <3>2, FrameBytes DEF Fits
    <3> DEFINE g == Frame(inner[k])
               r == rest[k]
    <3>5. (g \o r) \o f = g \o (r \o f)
      <4> HIDE DEF g, r
      <4>1. g \in Bytes /\ r \in Bytes
        BY <3>3, <3>4 DEF g, r
      <4>2. Associates(g, r, f)
        BY <1>2, <4>1, Together
      <4>. QED BY <4>2, Zenon DEF Associates
    <3> HIDE DEF longer
    <3>. QED BY <3>2, <3>3, <3>5
  <2>. QED BY <2>1, <2>2
<1>8. Laid(longer, more, n + 1, limits)
  <2> HIDE DEF longer
  <2>. QED BY <1>5, <1>6, <1>7 DEF Laid
<1>9. \A k \in 0 .. n : longer[k] = rest[k] \o Frame(x)
  <2> HIDE DEF longer
  <2>. QED BY <1>4 DEF f
<1> HIDE DEF longer
<1>. QED BY <1>8, <1>9

\* Of n frames, the ones behind the kth; p has come, and more of them is to.
Ahead(rest, inner, n, limits, k, p, more) ==
  /\ Laid(rest, inner, n, limits) /\ k \in 0 .. n /\ p \in Bytes /\ more \in Bytes
  /\ p \o more = rest[k]

\* What is found in front of p.
LEMMA AheadIs ==
  \A rest, inner, n, limits, k, p, more, max :
    Ahead(rest, inner, n, limits, k, p, more) /\ max \in limits /\ max \in Nat =>
      \/ FrameIn(p, max) = Partial
      \/ /\ k + 1 \in 1 .. n /\ inner[k + 1] = <<>> /\ FrameIn(p, max) = Invalid
      \/ /\ k + 1 \in 1 .. n /\ inner[k + 1] # <<>> /\ inner[k + 1] \in Bytes
         /\ \E size \in 1 .. Len(p) :
              /\ FrameIn(p, max) = Whole(size, inner[k + 1])
              /\ Ahead(rest, inner, n, limits, k + 1, From(p, size), more)
<1> SUFFICES ASSUME NEW rest, NEW inner, NEW n, NEW limits, NEW k, NEW p, NEW more, NEW max,
                    Ahead(rest, inner, n, limits, k, p, more), max \in limits, max \in Nat
             PROVE  \/ FrameIn(p, max) = Partial
                    \/ /\ k + 1 \in 1 .. n /\ inner[k + 1] = <<>> /\ FrameIn(p, max) = Invalid
                    \/ /\ k + 1 \in 1 .. n /\ inner[k + 1] # <<>> /\ inner[k + 1] \in Bytes
                       /\ \E size \in 1 .. Len(p) :
                            /\ FrameIn(p, max) = Whole(size, inner[k + 1])
                            /\ Ahead(rest, inner, n, limits, k + 1, From(p, size), more)
  OBVIOUS
<1>1. /\ Laid(rest, inner, n, limits) /\ k \in 0 .. n /\ p \in Bytes /\ more \in Bytes
      /\ p \o more = rest[k]
  BY DEF Ahead
<1>2. n \in Nat /\ rest \in [0 .. n -> Bytes] /\ rest[n] = <<>>
  BY <1>1 DEF Laid
<1>3. CASE k = n
  <2>1. Len(p \o more) = Len(p) + Len(more) /\ Len(p) \in Nat /\ Len(more) \in Nat
    BY <1>1, InFront, BytesLength
  <2>2. Len(p \o more) = 0
    BY <1>1, <1>2, <1>3
  <2>3. Len(p) = 0
    BY <2>1, <2>2
  <2>4. 0 \in 0 .. Len(p) /\ \A j \in 1 .. Len(p) : j <= MaxSize => p[j] >= Continue
    BY <2>3
  <2>5. readVarInt(p) = IF Len(p) >= MaxSize THEN Result(0, MaxSize, "VarInt too big")
                        ELSE Result(0, Len(p), "EOF")
    BY <1>1, <2>4, ReadsNoEnd DEF Bytes
  <2>6. ~(Len(p) >= MaxSize)
    BY <2>3, MaxSizeIs
  <2>7. readVarInt(p) = Result(0, 0, "EOF")
    BY <2>3, <2>5, <2>6
  <2>8. FrameIn(p, max) = Partial
    BY <1>1, <2>4, <2>7, FrameInEOF
  <2>. QED BY <2>8
<1>4. CASE k # n
  <2> DEFINE x == inner[k + 1]
             r == rest[k + 1]
             f == Frame(x)
  <2>1. k + 1 \in 1 .. n /\ k + 1 \in 0 .. n /\ (k + 1) - 1 = k
    BY <1>1, <1>2, <1>4
  <2>2. Fits(x, limits) /\ rest[k] = f \o r
    <3>1. Fits(inner[k + 1], limits) /\ rest[(k + 1) - 1] = Frame(inner[k + 1]) \o rest[k + 1]
      BY <1>1, <2>1 DEF Laid
    <3>. QED BY <2>1, <3>1
  <2>3. x \in Bytes /\ Len(x) \in Int32 /\ Len(x) <= max
    BY <2>2 DEF Fits
  <2>4. r \in Bytes /\ p \o more = f \o r
    BY <1>1, <1>2, <2>1, <2>2
  <2>5. f \in Bytes /\ Len(f) \in Nat \ {0}
    BY <2>3, FrameBytes
  <2>6. IF Len(p) < Len(f) THEN FrameIn(p, max) = Partial
        ELSE IF x = <<>> THEN FrameIn(p, max) = Invalid
        ELSE /\ FrameIn(p, max) = Whole(Len(f), x)
             /\ Len(f) \in 0 .. Len(p) /\ From(p, Len(f)) \o more = r
    <3> HIDE DEF x, r
    <3>1. p \o more = Frame(x) \o r /\ max \in Int
      BY <2>4
    <3>2. Arrives(x, max, p, more, r)
      BY <1>1, <2>3, <2>4, <3>1 DEF Arrives
    <3>. QED BY <3>2, FrameAhead
  <2>7. ASSUME Len(f) \in 0 .. Len(p), From(p, Len(f)) \o more = r
        PROVE  Len(f) \in 1 .. Len(p) /\ Ahead(rest, inner, n, limits, k + 1, From(p, Len(f)), more)
    <3>1. Len(f) \in 1 .. Len(p)
      BY <2>5, <2>7
    <3>2. From(p, Len(f)) \in Bytes
      BY <1>1, <2>7, Splits
    <3> HIDE DEF f
    <3>. QED BY <1>1, <2>1, <2>7, <3>1, <3>2 DEF Ahead
  <2> HIDE DEF f
  <2>8. CASE Len(p) < Len(f)
    BY <2>6, <2>8
  <2>9. CASE ~(Len(p) < Len(f)) /\ x = <<>>
    BY <2>1, <2>6, <2>9
  <2>10. CASE ~(Len(p) < Len(f)) /\ x # <<>>
    <3>1. FrameIn(p, max) = Whole(Len(f), x)
      BY <2>6, <2>10
    <3>2. Len(f) \in 1 .. Len(p) /\ Ahead(rest, inner, n, limits, k + 1, From(p, Len(f)), more)
      BY <2>6, <2>7, <2>10
    <3>. QED BY <2>1, <2>3, <2>10, <3>1, <3>2
  <2>. QED BY <2>8, <2>9, <2>10
<1>. QED BY <1>3, <1>4

(* What a read leads to, where k frames have been read: m have, and the next  *)
(* is still arriving, or none and what is read is not a frame.                *)
Reached(o, rest, inner, n, limits, k, well, more) ==
  \E m \in k .. n :
    /\ \A j \in k + 1 .. m : inner[j] # <<>>
    /\ well[m] = well[k] \o o.heard
    /\ IF o.dropped THEN m < n /\ inner[m + 1] = <<>>
       ELSE Ahead(rest, inner, n, limits, m, o.left, more)

\* Every frame that is not empty adds to well what is decoded from it.
Heard(well, inner, k, n) ==
  /\ \A j \in k .. n : well[j] \in Seq(Bytes)
  /\ \A j \in k + 1 .. n :
       inner[j] # <<>> => well[j] = well[j - 1] \o decodeBody(inner[j], MaxPacketSize)

\* processPending on the head of frames hears what is in those it has.
LEMMA processPendingReaches ==
  \A rest, inner, n, limits, k, b, more, well :
    Ahead(rest, inner, n, limits, k, b, more) /\ MaxPacketSize \in limits
    /\ Heard(well, inner, k, n) =>
      Reached(processPending(b), rest, inner, n, limits, k, well, more)
<1> SUFFICES ASSUME NEW rest, NEW inner, NEW n, NEW limits, NEW k, NEW b, NEW more, NEW well,
                    Ahead(rest, inner, n, limits, k, b, more), MaxPacketSize \in limits,
                    Heard(well, inner, k, n)
             PROVE  Reached(processPending(b), rest, inner, n, limits, k, well, more)
  OBVIOUS
<1>1. b \in Bytes /\ Len(b) \in Nat /\ n \in Nat /\ k \in 0 .. n /\ MaxPacketSize \in Nat
  BY BytesLength, SizesAssumption DEF Ahead, Laid
<1>2. PICK served : /\ processPending(b) = served[0]
                    /\ \A c \in 0 .. Len(b) : served[c] \in Outcomes /\ Turn(b, served, c)
  BY <1>1, processPendingTurns
<1> DEFINE On(c, i) == Ahead(rest, inner, n, limits, i, From(b, c), more)
           Good(c, i) == Reached(served[c], rest, inner, n, limits, i, well, more)
           T == {j \in Nat : \A c \in 0 .. Len(b), i \in k .. n :
                               Len(b) - c <= j /\ On(c, i) => Good(c, i)}
<1>3. ASSUME NEW j \in Int,
             \A c \in 0 .. Len(b), i \in k .. n : Len(b) - c < j /\ On(c, i) => Good(c, i)
      PROVE  \A c \in 0 .. Len(b), i \in k .. n : Len(b) - c <= j /\ On(c, i) => Good(c, i)
  <2>1. SUFFICES ASSUME NEW c \in 0 .. Len(b), NEW i \in k .. n, Len(b) - c <= j, On(c, i)
                 PROVE  Good(c, i)
    OBVIOUS
  <2> DEFINE p == From(b, c)
             frame == FrameIn(p, MaxPacketSize)
             x == inner[i + 1]
  <2>2. p \in Bytes /\ Len(p) = Len(b) - c
    BY <1>1, Splits
  <2>3. i \in Nat /\ i \in i .. n /\ well[i] \in Seq(Bytes) /\ well[i] = well[i] \o <<>>
    <3>1. i \in Nat /\ i \in i .. n
      BY <1>1
    <3>2. well[i] \in Seq(Bytes)
      BY DEF Heard
    <3>. QED BY <3>1, <3>2
  <2>4. \A l \in i + 1 .. i : inner[l] # <<>>
    BY <2>3
  <2>5. /\ frame = Partial => served[c] = Outcome(<<>>, p, FALSE)
        /\ frame = Invalid => served[c] = Outcome(<<>>, <<>>, TRUE)
        /\ \A size \in 1 .. Len(b) - c, body \in Bytes :
             frame = Whole(size, body) =>
               served[c] = Outcome(decodeBody(body, MaxPacketSize) \o served[c + size].heard,
                                   served[c + size].left, served[c + size].dropped)
    BY <1>2 DEF Turn
  <2>6. CASE frame = Partial
    <3>1. served[c].heard = <<>> /\ served[c].left = p /\ served[c].dropped = FALSE
      BY <2>5, <2>6 DEF Outcome
    <3> HIDE DEF p
    <3>. QED BY <2>1, <2>3, <2>4, <3>1 DEF Reached, p
  <2>7. CASE i + 1 \in 1 .. n /\ x = <<>> /\ frame = Invalid
    <3>1. served[c].heard = <<>> /\ served[c].dropped = TRUE
      BY <2>5, <2>7 DEF Outcome
    <3>2. i < n
      BY <1>1, <2>3, <2>7
    <3>. QED BY <2>3, <2>4, <2>7, <3>1, <3>2 DEF Reached
  <2>8. CASE /\ i + 1 \in 1 .. n /\ x # <<>> /\ x \in Bytes
             /\ \E size \in 1 .. Len(p) :
                  /\ frame = Whole(size, x)
                  /\ Ahead(rest, inner, n, limits, i + 1, From(p, size), more)
    <3>1. PICK size \in 1 .. Len(p) : /\ frame = Whole(size, x)
                                      /\ Ahead(rest, inner, n, limits, i + 1, From(p, size), more)
      BY <2>8
    <3> DEFINE e == c + size
               o == served[e]
    <3>2. e \in 0 .. Len(b) /\ Len(b) - e < j /\ size \in 1 .. Len(b) - c /\ size \in 0 .. Len(b) - c
          /\ i + 1 \in k .. n /\ i + 1 \in i + 1 .. n
      BY <1>1, <2>1, <2>2, <2>8
    <3>3. From(p, size) = From(b, e)
      BY <1>1, <3>2, FromFrom
    <3>4. On(e, i + 1)
      BY <3>1, <3>3
    <3>5. Good(e, i + 1)
      <4> HIDE DEF On, Good, e
      <4>. QED BY <1>3, <3>2, <3>4
    <3>6. served[c] = Outcome(decodeBody(x, MaxPacketSize) \o o.heard, o.left, o.dropped)
      <4> HIDE DEF frame, x
      <4>. QED BY <2>5, <2>8, <3>1, <3>2
    <3> DEFINE d == decodeBody(x, MaxPacketSize)
    <3>7. served[c].heard = d \o o.heard /\ served[c].left = o.left /\ served[c].dropped = o.dropped
      <4> HIDE DEF o, e, x
      <4>. QED BY <3>6 DEF Outcome
    <3>8. d \in Seq(Bytes) /\ o.heard \in Seq(Bytes)
      <4>1. o \in Outcomes
        <5> HIDE DEF e
        <5>. QED BY <1>2, <3>2
      <4>. QED BY <2>8, <4>1, decodeBodyType DEF Outcomes
    <3>9. well[i + 1] = well[i] \o d
      <4>1. i + 1 \in k + 1 .. n /\ (i + 1) - 1 = i
        BY <1>1, <2>8
      <4>. QED BY <2>8, <4>1 DEF Heard
    <3>10. PICK m \in i + 1 .. n :
             /\ \A l \in (i + 1) + 1 .. m : inner[l] # <<>>
             /\ well[m] = well[i + 1] \o o.heard
             /\ IF o.dropped THEN m < n /\ inner[m + 1] = <<>>
                ELSE Ahead(rest, inner, n, limits, m, o.left, more)
      BY <3>5 DEF Reached
    <3>11. m \in i .. n /\ \A l \in i + 1 .. m : l = i + 1 \/ l \in (i + 1) + 1 .. m
      BY <1>1, <2>3
    <3>12. \A l \in i + 1 .. m : inner[l] # <<>>
      BY <2>8, <3>10, <3>11
    <3>13. well[m] = well[i] \o (d \o o.heard)
      <4> HIDE DEF d, o
      <4>1. (well[i] \o d) \o o.heard = well[i] \o (d \o o.heard)
        <5>1. well[i] \in Seq(Bytes) /\ d \in Seq(Bytes) /\ o.heard \in Seq(Bytes)
          BY <2>3, <3>8
        <5>2. Joins(well[i], d, o.heard)
          BY <5>1, JoinedTogether
        <5>. QED BY <5>2, Zenon DEF Joins
      <4>. QED BY <3>9, <3>10, <4>1
    <3> HIDE DEF d, o
    <3>14. well[m] = well[i] \o served[c].heard
      BY <3>7, <3>13
    <3>15. IF served[c].dropped THEN m < n /\ inner[m + 1] = <<>>
           ELSE Ahead(rest, inner, n, limits, m, served[c].left, more)
      BY <3>7, <3>10
    <3>. QED BY <3>11, <3>12, <3>14, <3>15 DEF Reached
  <2>9. \/ frame = Partial
        \/ i + 1 \in 1 .. n /\ x = <<>> /\ frame = Invalid
        \/ /\ i + 1 \in 1 .. n /\ x # <<>> /\ x \in Bytes
           /\ \E size \in 1 .. Len(p) :
                /\ frame = Whole(size, x)
                /\ Ahead(rest, inner, n, limits, i + 1, From(p, size), more)
    <3>1. Ahead(rest, inner, n, limits, i, p, more)
      BY <2>1
    <3>2. MaxPacketSize \in limits /\ MaxPacketSize \in Nat
      BY <1>1
    <3> HIDE DEF p
    <3>. QED BY <3>1, <3>2, AheadIs
  <2> HIDE DEF frame, x, Good, p
  <2>. QED BY <2>6, <2>7, <2>8, <2>9
<1> HIDE DEF On, Good
<1>4. 0 \in T
  <2>1. \A c \in 0 .. Len(b) : ~(Len(b) - c < 0)
    BY <1>1
  <2>. QED BY <1>3, <2>1
<1>5. ASSUME NEW j \in T PROVE j + 1 \in T
  <2>1. j \in Nat /\ \A c \in 0 .. Len(b) : Len(b) - c < j + 1 => Len(b) - c <= j
    BY <1>1
  <2>2. \A c \in 0 .. Len(b), i \in k .. n : Len(b) - c < j + 1 /\ On(c, i) => Good(c, i)
    BY <2>1
  <2>. QED BY <1>3, <2>1, <2>2
<1>6. T \subseteq Nat
  OBVIOUS
<1>7. T = Nat
  <2> HIDE DEF T
  <2>. QED BY <1>4, <1>5, <1>6, SetInduction
<1>8. On(0, k)
  <2>1. 0 \in 0 .. Len(b) /\ From(b, 0) \in Bytes /\ Len(From(b, 0)) = Len(b)
        /\ \A l \in 1 .. Len(b) : From(b, 0)[l] = b[l]
    <3>1. 0 \in 0 .. Len(b) /\ Len(b) - 0 = Len(b) /\ \A l \in 1 .. Len(b) : 0 + l = l
      BY <1>1
    <3>2. From(b, 0) \in Bytes /\ Len(From(b, 0)) = Len(b) - 0
          /\ \A l \in 1 .. Len(b) - 0 : From(b, 0)[l] = b[0 + l]
      BY <1>1, <3>1, Splits
    <3>. QED BY <3>1, <3>2
  <2>2. From(b, 0) = b
    BY <1>1, <2>1, SameBytes
  <2>. QED BY <2>2 DEF On
<1>9. Good(0, k)
  <2>1. Len(b) \in T /\ 0 \in 0 .. Len(b) /\ k \in k .. n /\ Len(b) - 0 <= Len(b)
    <3>1. Len(b) \in Nat /\ 0 \in 0 .. Len(b) /\ k \in k .. n /\ Len(b) - 0 <= Len(b)
      BY <1>1
    <3> HIDE DEF T
    <3>. QED BY <1>7, <3>1
  <2>. QED BY <1>8, <2>1
<1>. QED BY <1>2, <1>9 DEF Good

-------------------------------------------------------------------------------
(* What is said well                                                          *)

Sayings == [body : Replies, form : Forms]

\* The bodies framed well among the first k, from those among the first k - 1.
LEMMA FitAmongIs ==
  ASSUME NEW s \in Seq(Sayings)
  PROVE  /\ FitAmong(s)[0] = <<>>
         /\ \A k \in 0 .. Len(s) : FitAmong(s)[k] \in Seq(Bytes)
         /\ \A k \in 1 .. Len(s) :
              FitAmong(s)[k] = IF s[k].form = "fit" THEN Append(FitAmong(s)[k - 1], s[k].body)
                               ELSE FitAmong(s)[k - 1]
<1> DEFINE n == Len(s)
           D == 0 .. n
           S == Seq(Bytes)
           Step(k, x) == IF s[k].form = "fit" THEN Append(x, s[k].body) ELSE x
           Value(g, k) == IF k = 0 THEN <<>>
                          ELSE IF s[k].form = "fit" THEN Append(g[k - 1], s[k].body)
                          ELSE g[k - 1]
           fit == CHOOSE g : g = [k \in D |-> Value(g, k)]
           stops == {0}
           rank == [k \in D |-> k]
           out == [k \in stops |-> <<>>]
           from == [k \in D \ stops |-> k - 1]
           step == [k \in D \ stops |-> [x \in S |-> Step(k, x)]]
<1>1. FitAmong(s) = fit
  BY Zenon DEF FitAmong
<1>2. n \in Nat /\ \A k \in 1 .. n : s[k].body \in Bytes
  <2>1. n \in Nat /\ \A k \in 1 .. n : s[k] \in Sayings
    OBVIOUS
  <2>3. ASSUME NEW body \in Replies PROVE body \in Bytes
    BY RoomIs, PacketsFit DEF Limits
  <2>. QED BY <2>1, <2>3 DEF Sayings
<1>3. \A k \in 1 .. n, x \in S : Step(k, x) \in S
  BY <1>2
<1> HIDE DEF Step
<1>4. Calls(D, S, n, rank, stops, out, from, step)
  <2>1. rank \in [D -> 0 .. n] /\ stops \subseteq D /\ from \in [D \ stops -> D]
        /\ \A k \in D \ stops : rank[from[k]] < rank[k]
    BY <1>2
  <2>2. out \in [stops -> S]
    <3>1. <<>> \in S
      OBVIOUS
    <3> HIDE DEF S
    <3>. QED BY <3>1
  <2>3. step \in [D \ stops -> [S -> S]]
    <3>1. \A k \in D \ stops : k \in 1 .. n
      BY <1>2
    <3> HIDE DEF D, stops, S
    <3>2. \A k \in D \ stops : [x \in S |-> Step(k, x)] \in [S -> S]
      BY <1>3, <3>1
    <3>. QED BY <3>2
  <2>. QED BY <1>2, <2>1, <2>2, <2>3, Zenon DEF Calls
<1>5. PICK g0 : Solves(g0, D, S, stops, out, from, step)
  <2> HIDE DEF D, S, rank, stops, out, from, step
  <2>. QED BY <1>4, Recursion
<1>6. ASSUME NEW k \in D PROVE g0[k] = Value(g0, k)
  <2>1. CASE k = 0
    <3>1. g0[k] = out[k] /\ k \in stops
      BY <1>5, <2>1 DEF Solves
    <3>. QED BY <2>1, <3>1
  <2>2. CASE k # 0
    <3>1. k \in D \ stops /\ k - 1 \in D /\ from[k] = k - 1
      BY <1>2, <2>2
    <3>2. g0[k] = step[k][g0[k - 1]] /\ g0[k - 1] \in S
      <4> HIDE DEF D, S, stops, from, step
      <4>. QED BY <1>5, <3>1 DEF Solves
    <3>3. step[k] = [x \in S |-> Step(k, x)]
      BY <3>1
    <3>4. g0[k] = Step(k, g0[k - 1])
      <4> HIDE DEF S, step
      <4>. QED BY <3>2, <3>3
    <3>. QED BY <2>2, <3>4 DEF Step
  <2>. QED BY <2>1, <2>2
<1>7. \E g : g = [k \in D |-> Value(g, k)]
  <2>1. DOMAIN g0 = D /\ g0 = [k \in DOMAIN g0 |-> g0[k]]
    <3> HIDE DEF D
    <3>. QED BY <1>5 DEF Solves
  <2> HIDE DEF D, Value
  <2>2. g0 = [k \in D |-> Value(g0, k)]
    BY <1>6, <2>1
  <2>. QED BY <2>2
<1>8. fit = [k \in D |-> Value(fit, k)]
  BY <1>7, Zenon
<1> HIDE DEF fit
<1>9. fit[0] = <<>> /\ \A k \in 1 .. n : fit[k] = Step(k, fit[k - 1])
  <2>1. 0 \in D /\ \A k \in 1 .. n : k \in D /\ k # 0
    BY <1>2
  <2> HIDE DEF D
  <2>2. \A k \in D : fit[k] = Value(fit, k)
    BY <1>8
  <2>. QED BY <2>1, <2>2 DEF Step
<1>10. \A k \in D : fit[k] \in S
  <2> DEFINE T == {k \in Nat : k <= n => fit[k] \in S}
  <2>1. 0 \in T
    <3>1. <<>> \in S
      OBVIOUS
    <3> HIDE DEF S
    <3>. QED BY <1>9, <3>1
  <2>2. ASSUME NEW k \in T PROVE k + 1 \in T
    <3>1. SUFFICES ASSUME k + 1 <= n PROVE fit[k + 1] \in S
      OBVIOUS
    <3>2. k <= n /\ k + 1 \in 1 .. n /\ (k + 1) - 1 = k
      BY <1>2, <3>1
    <3> HIDE DEF S
    <3>. QED BY <1>3, <1>9, <3>2
  <2>3. T \subseteq Nat
    OBVIOUS
  <2>4. T = Nat
    <3> HIDE DEF T
    <3>. QED BY <2>1, <2>2, <2>3, SetInduction
  <2>5. \A k \in D : k \in Nat /\ k <= n
    BY <1>2
  <2>. QED BY <2>4, <2>5
<1>. QED BY <1>1, <1>9, <1>10 DEF Step

\* Those among the first k are not changed by what is said after.
LEMMA FitAmongStays ==
  ASSUME NEW s \in Seq(Sayings), NEW x \in Sayings, NEW k \in 0 .. Len(s)
  PROVE  FitAmong(Append(s, x))[k] = FitAmong(s)[k]
<1> DEFINE t == Append(s, x)
           T == {i \in Nat : i <= Len(s) => FitAmong(t)[i] = FitAmong(s)[i]}
<1>1. t \in Seq(Sayings) /\ Len(t) = Len(s) + 1 /\ Len(s) \in Nat
      /\ \A i \in 1 .. Len(s) : t[i] = s[i]
  OBVIOUS
<1> HIDE DEF t
<1>2. FitAmong(t)[0] = <<>> /\ FitAmong(s)[0] = <<>>
  BY <1>1, FitAmongIs
<1>3. 0 \in T
  BY <1>2
<1>4. ASSUME NEW i \in T PROVE i + 1 \in T
  <2>1. SUFFICES ASSUME i + 1 <= Len(s) PROVE FitAmong(t)[i + 1] = FitAmong(s)[i + 1]
    OBVIOUS
  <2> DEFINE j == i + 1
  <2>2. j \in 1 .. Len(s) /\ j \in 1 .. Len(t) /\ j - 1 = i /\ FitAmong(t)[i] = FitAmong(s)[i]
    BY <1>1, <2>1
  <2>3. t[j] = s[j]
    BY <1>1, <2>2
  <2> HIDE DEF j
  <2>4. FitAmong(t)[j] = IF t[j].form = "fit" THEN Append(FitAmong(t)[j - 1], t[j].body)
                         ELSE FitAmong(t)[j - 1]
    BY <1>1, <2>2, FitAmongIs
  <2>5. FitAmong(s)[j] = IF s[j].form = "fit" THEN Append(FitAmong(s)[j - 1], s[j].body)
                         ELSE FitAmong(s)[j - 1]
    BY <2>2, FitAmongIs
  <2>6. FitAmong(t)[j] = FitAmong(s)[j]
    BY <2>2, <2>3, <2>4, <2>5
  <2>. QED BY <2>6 DEF j
<1>5. T \subseteq Nat
  OBVIOUS
<1>6. T = Nat
  <2> HIDE DEF T
  <2>. QED BY <1>3, <1>4, <1>5, SetInduction
<1>7. k \in T /\ k <= Len(s)
  <2>1. k \in Nat /\ k <= Len(s)
    BY <1>1
  <2> HIDE DEF T
  <2>. QED BY <1>6, <2>1
<1>. QED BY <1>7 DEF t

\* A beginning of what begins with more.
LEMMA PrefixOf ==
  ASSUME NEW u \in Seq(Bytes), NEW v \in Seq(Bytes), Len(u) <= Len(v),
         \A k \in 1 .. Len(u) : u[k] = v[k]
  PROVE  IsPrefix(u, v)
<1>1. Len(u) \in Nat /\ Len(v) \in Nat
  OBVIOUS
<1> DEFINE a == SubSeq(u, 1, Len(u))
           b == SubSeq(v, 1, Len(u))
<1>2. a \in Seq(Bytes) /\ Len(a) = Len(u) /\ \A k \in 1 .. Len(u) : a[k] = u[k]
  BY <1>1
<1>3. b \in Seq(Bytes) /\ Len(b) = Len(u) /\ \A k \in 1 .. Len(u) : b[k] = v[k]
  BY <1>1
<1> HIDE DEF a, b
<1>4. a = b
  BY <1>2, <1>3, SeqEqual
<1>. QED BY <1>4 DEF IsPrefix, a, b

\* Those among the first are a beginning of those among more.
LEMMA FitAmongPrefix ==
  ASSUME NEW s \in Seq(Sayings), NEW n \in 0 .. Len(s), NEW m \in n .. Len(s)
  PROVE  IsPrefix(FitAmong(s)[n], FitAmong(s)[m])
<1> DEFINE f == FitAmong(s)
           u == f[n]
           Begun(i) == Len(u) <= Len(f[i]) /\ \A k \in 1 .. Len(u) : f[i][k] = u[k]
           T == {j \in Nat : n + j <= Len(s) => Begun(n + j)}
<1>1. Len(s) \in Nat /\ n \in Nat /\ m \in Nat /\ m - n \in Nat /\ n + (m - n) = m /\ m <= Len(s)
      /\ n + 0 = n
  OBVIOUS
<1>2. /\ \A k \in 0 .. Len(s) : f[k] \in Seq(Bytes)
      /\ \A k \in 1 .. Len(s) :
           f[k] = IF s[k].form = "fit" THEN Append(f[k - 1], s[k].body) ELSE f[k - 1]
  BY FitAmongIs
<1> HIDE DEF f
<1>3. u \in Seq(Bytes) /\ Len(u) \in Nat
  BY <1>2
<1> HIDE DEF u
<1>4. 0 \in T
  <2>1. Begun(n)
    BY <1>3 DEF u
  <2> HIDE DEF Begun
  <2>. QED BY <1>1, <2>1
<1>5. ASSUME NEW j \in T PROVE j + 1 \in T
  <2>1. SUFFICES ASSUME n + (j + 1) <= Len(s) PROVE Begun(n + (j + 1))
    OBVIOUS
  <2> DEFINE i == n + j
             i1 == n + (j + 1)
  <2>2. i \in 0 .. Len(s) /\ i1 \in 1 .. Len(s) /\ i1 - 1 = i /\ Begun(i)
    BY <1>1, <2>1
  <2> HIDE DEF i, i1
  <2>3. f[i] \in Seq(Bytes)
    BY <1>2, <2>2
  <2>4. f[i1] = f[i] \/ \E x : f[i1] = Append(f[i], x)
    BY <1>2, <2>2
  <2>5. Begun(i1)
    <3>1. CASE f[i1] = f[i]
      BY <2>2, <3>1
    <3>2. ASSUME NEW x, f[i1] = Append(f[i], x) PROVE Begun(i1)
      <4>1. Len(f[i1]) = Len(f[i]) + 1 /\ \A k \in 1 .. Len(f[i]) : f[i1][k] = f[i][k]
        BY <2>3, <3>2
      <4>2. Len(f[i]) \in Nat /\ Len(u) <= Len(f[i]) /\ \A k \in 1 .. Len(u) : f[i][k] = u[k]
        BY <2>2, <2>3
      <4>3. \A k \in 1 .. Len(u) : k \in 1 .. Len(f[i])
        BY <1>3, <4>2
      <4>4. Len(u) <= Len(f[i1])
        BY <1>3, <4>1, <4>2
      <4>. QED BY <4>1, <4>2, <4>3, <4>4
    <3>. QED BY <2>4, <3>1, <3>2
  <2>. QED BY <2>5 DEF i1
<1>6. T \subseteq Nat
  OBVIOUS
<1>7. T = Nat
  <2> HIDE DEF T
  <2>. QED BY <1>4, <1>5, <1>6, SetInduction
<1>8. Begun(m)
  <2>1. m - n \in T
    <3> HIDE DEF T
    <3>. QED BY <1>1, <1>7
  <2> HIDE DEF Begun
  <2>. QED BY <1>1, <2>1
<1>9. f[m] \in Seq(Bytes)
  BY <1>1, <1>2
<1>10. IsPrefix(u, f[m])
  BY <1>3, <1>8, <1>9, PrefixOf
<1>. QED BY <1>10 DEF u, f

-------------------------------------------------------------------------------
(* What is written                                                            *)

FramesTypeOK ==
  /\ phase \in {"login", "configuration", "play"}
  /\ threshold \in Thresholds \cup {Off} /\ told \in Thresholds \cup {Off}
  /\ toClient \in Bytes /\ toServer \in Bytes /\ pending \in Waiting
  /\ taken \in BOOLEAN /\ dropped \in BOOLEAN /\ settled \in BOOLEAN
  /\ wrote \in Seq(Bytes) /\ heard \in Seq(Bytes) /\ got \in Seq(Bytes)
  /\ said \in Seq(Sayings)

\* The packet that announces a threshold can be read, as that and nothing else.
LEMMA SetCompressionIs ==
  ASSUME NEW t \in Thresholds
  PROVE  /\ SetCompression(t) \in Bytes /\ Fits(SetCompression(t), {MaxPacketSize})
         /\ SetCompression(t) # <<>> /\ SetCompression(t) # LoginSuccess
         /\ \A u \in Thresholds : SetCompression(u) = SetCompression(t) => u = t
<1> DEFINE z == <<0>>
           a(u) == AppendVarInt(<<>>, u)
<1>1. z \in Bytes /\ Len(z) = 1
  <2>1. 0 \in ByteValues
    BY Widths DEF ByteValues
  <2>. QED BY <2>1 DEF Bytes
<1>2. \A u \in Thresholds : u \in Int32 /\ Len(SetCompression(u)) <= MaxPacketSize
  BY AnnouncedAssumption
<1>3. ASSUME NEW u \in Thresholds
      PROVE  /\ a(u) \in Bytes /\ SetCompression(u) = z \o a(u)
             /\ readVarInt(a(u)) = Result(u, Len(a(u)), "none")
  <2>1. <<>> \in Bytes /\ u \in Int32
    BY <1>2 DEF Bytes
  <2>2. a(u) \in Bytes /\ readVarInt(a(u) \o <<>>) = Result(u, Len(a(u)), "none")
    BY <2>1, SizeInFront
  <2>3. a(u) \o <<>> = a(u)
    <3> HIDE DEF a
    <3>. QED BY <2>2 DEF Bytes
  <2>. QED BY <2>2, <2>3 DEF SetCompression
<1> HIDE DEF z, a
<1>4. ASSUME NEW u \in Thresholds
      PROVE  /\ SetCompression(u) \in Bytes /\ Len(SetCompression(u)) >= 1
             /\ SetCompression(u)[1] = z[1] /\ From(SetCompression(u), 1) = a(u)
  <2> DEFINE y == a(u)
  <2>1. y \in Bytes /\ SetCompression(u) = z \o y
    BY <1>3
  <2> HIDE DEF y
  <2>2. /\ z \o y \in Bytes /\ Len(z \o y) = Len(z) + Len(y)
        /\ \A k \in 1 .. Len(z) : (z \o y)[k] = z[k]
        /\ From(z \o y, Len(z)) = y
    BY <1>1, <2>1, InFront
  <2>3. Len(y) \in Nat
    BY <2>1, BytesLength
  <2>4. Len(z) + Len(y) >= 1 /\ 1 \in 1 .. Len(z)
    BY <1>1, <2>3
  <2>. QED BY <1>1, <2>1, <2>2, <2>4 DEF y
<1>5. SetCompression(t) # <<>>
  BY <1>4
<1>6. SetCompression(t) # LoginSuccess
  <2>1. z[1] = 0 /\ LoginSuccess[1] = 1
    BY DEF z, LoginSuccess
  <2>. QED BY <1>4, <2>1
<1>7. ASSUME NEW u \in Thresholds, SetCompression(u) = SetCompression(t) PROVE u = t
  <2>1. a(u) = a(t)
    BY <1>4, <1>7
  <2>2. Result(u, Len(a(u)), "none") = Result(t, Len(a(t)), "none")
    BY <1>3, <2>1
  <2>. QED BY <2>2 DEF Result
<1>8. Fits(SetCompression(t), {MaxPacketSize})
  <2>1. Len(SetCompression(t)) \in Nat /\ Len(SetCompression(t)) <= MaxPacketSize
    BY <1>2, <1>4, BytesLength
  <2>. QED BY <1>4, <2>1, Lengths DEF Fits
<1>. QED BY <1>4, <1>5, <1>6, <1>7, <1>8

\* The server writes x, framed for t.
Sends(x, t) ==
  /\ wrote' = Append(wrote, x)
  /\ toClient' = toClient \o Frame(Inner(x, "fit", t))

\* A body is framed as what is to be in its frame.
LEMMA FramedIs == \A body, t : Framed(body, t) = Frame(Inner(body, "fit", t))
<1>1. SUFFICES ASSUME NEW body, NEW t PROVE Framed(body, t) = Frame(Inner(body, "fit", t))
  OBVIOUS
<1>2. Inner(body, "fit", t) = IF t = Off THEN body ELSE CompressBody(body, t)
  BY DEF Inner
<1>. QED BY <1>2 DEF Framed

\* And so is one that was prepared ahead of time.
LEMMA PreparedIs ==
  ASSUME NEW body \in Bodies, FramesTypeOK, writePrepared(body)
  PROVE  Sends(body, threshold)
<1> DEFINE n == Len(body)
           d == Compress(body)
           inflated == Decompress(d, n)
<1>1. body \in Packets /\ MaxPacketSize \in Room(body)
  BY RoomIs DEF Packets
<1>2. body \in Bytes /\ n \in Int32 /\ 0 \in Int32
  BY <1>1, PacketsFit
<1>3. d \in Bytes /\ inflated.body = body
  <2>1. inflated = Made(body)
    BY <1>2, Decompresses
  <2> HIDE DEF inflated
  <2>2. inflated.body = body
    BY <2>1 DEF Made
  <2>. QED BY <1>2, <2>2, Compressed
<1>4. wrote' = Append(wrote, body)
      /\ toClient' = toClient \o
           IF threshold # Off /\ n >= threshold THEN CompressedFrame(n, d)
           ELSE IF threshold # Off THEN CompressedFrame(0, inflated.body)
           ELSE Frame(inflated.body)
  BY DEF writePrepared
<1> DEFINE f == IF threshold # Off /\ n >= threshold THEN CompressedFrame(n, d)
                ELSE IF threshold # Off THEN CompressedFrame(0, inflated.body)
                ELSE Frame(inflated.body)
<1>5. f = Frame(Inner(body, "fit", threshold))
  <2> HIDE DEF inflated
  <2>1. Inner(body, "fit", threshold)
          = IF threshold = Off THEN body ELSE CompressBody(body, threshold)
    BY DEF Inner
  <2>2. CASE threshold = Off
    BY <1>3, <2>1, <2>2
  <2>3. CASE threshold # Off /\ n >= threshold
    <3>1. CompressBody(body, threshold) = AppendVarInt(<<>>, n) \o d
      BY <2>3 DEF CompressBody
    <3>2. CompressedFrame(n, d) = Frame(AppendVarInt(<<>>, n) \o d)
      BY <1>2, <1>3, CompressedFrameIs
    <3>. QED BY <2>1, <2>3, <3>1, <3>2
  <2>4. CASE threshold # Off /\ ~(n >= threshold)
    <3>1. CompressBody(body, threshold) = AppendVarInt(<<>>, 0) \o body
      BY <2>4 DEF CompressBody
    <3>2. CompressedFrame(0, body) = Frame(AppendVarInt(<<>>, 0) \o body)
      BY <1>2, CompressedFrameIs
    <3>. QED BY <1>3, <2>1, <2>4, <3>1, <3>2
  <2>. QED BY <2>2, <2>3, <2>4
<1> HIDE DEF n, d, inflated
<1>. QED BY <1>4, <1>5 DEF Sends

\* Whatever the server writes but the announcement, it frames for the threshold.
Writing == FinishLogin \/ \E body \in Bodies : WritePacket(body) \/ writePrepared(body)

\* Each of those is one of the packets, and before play it is LoginSuccess.
LEMMA WritingSends ==
  ASSUME FramesTypeOK, Writing
  PROVE  /\ \E x \in Packets : Sends(x, threshold) /\ (phase = "login" => x = LoginSuccess)
         /\ phase' # "login"
         /\ UNCHANGED <<threshold, taken, clientState, toServer, pending, dropped, heard>>
<1>1. CASE FinishLogin
  <2>1. LoginSuccess \in Packets
    BY DEF LoginSuccess, Hello, Packets
  <2>2. Sends(LoginSuccess, threshold)
    BY <1>1, FramedIs DEF FinishLogin, writePacket, Sends
  <2>3. phase' # "login"
    BY <1>1 DEF FinishLogin
  <2>. QED BY <1>1, <2>1, <2>2, <2>3 DEF FinishLogin
<1>2. ASSUME NEW body \in Bodies, WritePacket(body)
      PROVE  /\ \E x \in Packets : Sends(x, threshold) /\ (phase = "login" => x = LoginSuccess)
             /\ phase' # "login"
             /\ UNCHANGED <<threshold, taken, clientState, toServer, pending, dropped, heard>>
  <2>1. Sends(body, threshold) /\ body \in Packets
    BY <1>2, FramedIs DEF WritePacket, writePacket, Sends, Packets
  <2>2. phase # "login" /\ phase' = phase
    BY <1>2 DEF WritePacket
  <2>. QED BY <1>2, <2>1, <2>2 DEF WritePacket
<1>3. ASSUME NEW body \in Bodies, writePrepared(body)
      PROVE  /\ \E x \in Packets : Sends(x, threshold) /\ (phase = "login" => x = LoginSuccess)
             /\ phase' # "login"
             /\ UNCHANGED <<threshold, taken, clientState, toServer, pending, dropped, heard>>
  <2>1. Sends(body, threshold) /\ body \in Packets
    BY <1>3, PreparedIs DEF Packets
  <2>2. phase # "login" /\ phase' = phase
    BY <1>3 DEF writePrepared
  <2>. QED BY <1>3, <2>1, <2>2 DEF writePrepared
<1>. QED BY <1>1, <1>2, <1>3 DEF Writing

\* The announcement itself, it does not deflate.
LEMMA EnablingSends ==
  ASSUME NEW t \in Thresholds, EnableCompression(t)
  PROVE  Sends(SetCompression(t), Off)
  BY FramedIs DEF EnableCompression, writePacket, Sends

\* What is sent is bytes.
LEMMA SentBytes ==
  /\ \A t : \A x \in Packets, form \in Forms :
       Inner(x, form, t) \in Bytes /\ Frame(Inner(x, form, t)) \in Bytes
  /\ \A t \in Thresholds :
       /\ Inner(SetCompression(t), "fit", Off) = SetCompression(t)
       /\ Frame(SetCompression(t)) \in Bytes
<1>1. ASSUME NEW x \in Packets, NEW form \in Forms, NEW t
      PROVE  Inner(x, form, t) \in Bytes /\ Frame(Inner(x, form, t)) \in Bytes
  <2> DEFINE i == Inner(x, form, t)
  <2>1. i \in Bytes /\ Len(i) \in Int32
    BY InnerFits DEF Fits
  <2> HIDE DEF i
  <2>2. Frame(i) \in Bytes
    BY <2>1, FrameBytes
  <2>. QED BY <2>1, <2>2 DEF i
<1>2. ASSUME NEW t \in Thresholds
      PROVE  /\ Inner(SetCompression(t), "fit", Off) = SetCompression(t)
             /\ Frame(SetCompression(t)) \in Bytes
  <2>1. SetCompression(t) \in Bytes /\ Len(SetCompression(t)) \in Int32
    BY SetCompressionIs DEF Fits
  <2>2. Frame(SetCompression(t)) \in Bytes
    BY <2>1, FrameBytes
  <2>. QED BY <2>2 DEF Inner
<1>. QED BY <1>1, <1>2

-------------------------------------------------------------------------------
(* Types                                                                      *)

\* Every variable keeps its type, and what the reactor holds may wait.
LEMMA FramesTyped == Spec => []FramesTypeOK
<1>1. Init => FramesTypeOK
  <2>1. <<>> \in Bytes /\ <<>> \in Seq(Bytes) /\ <<>> \in Seq(Sayings)
    BY DEF Bytes
  <2>. QED BY <2>1, NothingWaits DEF Init, FramesTypeOK
<1>2. FramesTypeOK /\ [Next]_vars => FramesTypeOK'
  <2> SUFFICES ASSUME FramesTypeOK, [Next]_vars PROVE FramesTypeOK'
    OBVIOUS
  <2> USE DEF FramesTypeOK
  <2>0. pending \in Bytes
    BY DEF Waiting
  <2>1. ASSUME NEW t \in Thresholds, EnableCompression(t) PROVE FramesTypeOK'
    <3>1. Sends(SetCompression(t), Off) /\ SetCompression(t) \in Bytes
      BY <2>1, EnablingSends, SetCompressionIs
    <3>2. Frame(SetCompression(t)) \in Bytes
      BY SentBytes
    <3>3. toClient \o Frame(SetCompression(t)) \in Bytes
      BY <3>2, InFront
    <3>4. toClient' \in Bytes
      BY <3>1, <3>3, SentBytes DEF Sends
    <3>5. wrote' \in Seq(Bytes)
      BY <3>1 DEF Sends
    <3>. QED BY <2>1, <3>4, <3>5 DEF EnableCompression, clientState
  <2>2. CASE Writing
    <3>1. PICK x \in Packets : Sends(x, threshold)
      BY <2>2, WritingSends
    <3>2. Frame(Inner(x, "fit", threshold)) \in Bytes /\ x \in Bytes
      <4>1. "fit" \in Forms /\ MaxPacketSize \in Room(x)
        BY RoomIs DEF Forms
      <4>. QED BY <4>1, SentBytes, PacketsFit
    <3>3. toClient' \in Bytes
      BY <3>1, <3>2, InFront DEF Sends
    <3>4. wrote' \in Seq(Bytes)
      BY <3>1, <3>2 DEF Sends
    <3>5. phase' \in {"login", "configuration", "play"}
      BY <2>2 DEF Writing, FinishLogin, WritePacket, writePrepared
    <3>6. UNCHANGED <<threshold, taken, clientState, toServer, pending, dropped, heard>>
      BY <2>2, WritingSends
    <3>. QED BY <3>3, <3>4, <3>5, <3>6 DEF clientState
  <2>3. ASSUME NEW body \in Replies, NEW form \in Forms, Say(body, form) PROVE FramesTypeOK'
    <3>1. InForm(body, form) \in Bytes
      BY RoomIs, InFormIs, SentBytes
    <3>2. toServer' \in Bytes
      BY <2>3, <3>1, InFront DEF Say
    <3>3. said' \in Seq(Sayings)
      <4>1. [body |-> body, form |-> form] \in Sayings
        BY DEF Sayings
      <4>. QED BY <2>3, <4>1 DEF Say
    <3>. QED BY <2>3, <3>2, <3>3 DEF Say, serverState
  <2>4. CASE Get
    <3> DEFINE frame == FrameIn(toClient, MaxPacketSize)
               body == IF told = Off THEN Made(frame.body)
                       ELSE DecompressBody(frame.body, told, MaxPacketSize)
    <3>1. /\ frame.is = "whole" /\ toClient' = From(toClient, frame.size)
          /\ got' = Append(got, body.body)
          /\ told' = IF ~settled /\ \E t \in Thresholds : body.body = SetCompression(t)
                     THEN CHOOSE t \in Thresholds : body.body = SetCompression(t)
                     ELSE told
          /\ settled' = (settled \/ body.body = LoginSuccess)
          /\ UNCHANGED <<phase, threshold, taken, wrote, said, toServer, pending, dropped, heard>>
      BY <2>4, Zenon DEF Get
    <3>2. PICK size \in 1 .. Len(toClient), x \in Bytes : frame = Whole(size, x)
      <4>1. MaxPacketSize \in Int
        BY SizesAssumption
      <4> HIDE DEF frame
      <4>2. frame # Partial /\ frame # Invalid
        BY <3>1 DEF Partial, Invalid
      <4>. QED BY <4>1, <4>2, FrameInType DEF frame
    <3> HIDE DEF frame
    <3>3. frame.size = size /\ frame.body = x
      BY <3>2 DEF Whole
    <3>4. body.body \in Bytes
      BY <3>3, DecompressBodyType DEF Made
    <3> HIDE DEF body
    <3>5. From(toClient, frame.size) \in Bytes
      <4>1. size \in 0 .. Len(toClient)
        BY <3>2
      <4>2. From(toClient, size) \in Bytes
        BY <4>1, Splits
      <4>. QED BY <3>3, <4>2
    <3>6. told' \in Thresholds \cup {Off}
      BY <3>1
    <3>7. got' \in Seq(Bytes) /\ settled' \in BOOLEAN
      BY <3>1, <3>4
    <3>. QED BY <3>1, <3>5, <3>6, <3>7
  <2>5. CASE ReadPacket
    <3> DEFINE frame == FrameIn(toServer, maxSize)
    <3>1. /\ \/ /\ frame.is = "invalid" /\ dropped' = TRUE /\ UNCHANGED <<toServer, heard>>
             \/ /\ frame.is = "whole" /\ toServer' = From(toServer, frame.size)
                /\ heard' = heard \o decodeBody(frame.body, maxSize) /\ UNCHANGED dropped
          /\ UNCHANGED <<serverState, clientState, pending>>
      BY <2>5, Zenon DEF ReadPacket
    <3> HIDE DEF frame
    <3>2. CASE frame.is = "invalid"
      BY <3>1, <3>2 DEF serverState, clientState
    <3>3. CASE frame.is = "whole"
      <4>1. maxSize \in Int
        BY SizesAssumption DEF maxSize
      <4>2. PICK size \in 1 .. Len(toServer), x \in Bytes : frame = Whole(size, x)
        <5>1. frame # Partial /\ frame # Invalid
          BY <3>3 DEF Partial, Invalid
        <5>. QED BY <4>1, <5>1, FrameInType DEF frame
      <4>3. frame.size = size /\ frame.body = x
        BY <4>2 DEF Whole
      <4>4. From(toServer, size) \in Bytes
        <5>1. size \in 0 .. Len(toServer)
          BY <4>2
        <5>. QED BY <5>1, Splits
      <4>5. heard \o decodeBody(x, maxSize) \in Seq(Bytes)
        <5>1. decodeBody(x, maxSize) \in Seq(Bytes)
          BY decodeBodyType
        <5>. QED BY <5>1
      <4>6. toServer' = From(toServer, size) /\ heard' = heard \o decodeBody(x, maxSize)
            /\ UNCHANGED dropped
        BY <3>1, <3>3, <4>3
      <4>. QED BY <3>1, <4>4, <4>5, <4>6 DEF serverState, clientState
    <3>. QED BY <3>1, <3>2, <3>3
  <2>6. CASE EnterPlay
    BY <2>6 DEF EnterPlay, clientState
  <2>7. ASSUME NEW b \in Bytes, Serve(b)
        PROVE  heard' \in Seq(Bytes) /\ pending' \in Waiting /\ dropped' \in BOOLEAN
    <3> DEFINE o == processPending(b)
    <3>1. o.heard \in Seq(Bytes) /\ o.left \in Waiting /\ o.dropped \in BOOLEAN
      BY processPendingType DEF Outcomes
    <3>2. heard' = heard \o o.heard /\ pending' = o.left /\ dropped' = o.dropped
      BY <2>7, Zenon DEF Serve
    <3> HIDE DEF o
    <3>. QED BY <3>1, <3>2
  <2>8. ASSUME NEW n \in Nat, n <= Len(toServer)
        PROVE  SubSeq(toServer, 1, n) \in Bytes /\ From(toServer, n) \in Bytes
    <3>1. n \in 0 .. Len(toServer)
      BY <2>8, BytesLength
    <3>. QED BY <3>1, Splits
  <2>9. ASSUME NEW n \in 0 .. ReadSize, register(n) PROVE FramesTypeOK'
    <3>1. n \in Nat /\ n <= Len(toServer) /\ Serve(SubSeq(toServer, 1, n))
          /\ taken' = TRUE /\ toServer' = From(toServer, n)
          /\ UNCHANGED <<phase, threshold, toClient, wrote, clientState>>
      BY <2>9 DEF register
    <3>2. heard' \in Seq(Bytes) /\ pending' \in Waiting /\ dropped' \in BOOLEAN /\ toServer' \in Bytes
      BY <2>7, <2>8, <3>1
    <3>. QED BY <3>1, <3>2 DEF clientState
  <2>10. ASSUME NEW n \in 1 .. ReadSize, readReady(n) PROVE FramesTypeOK'
    <3>1. n \in Nat /\ n <= Len(toServer) /\ Serve(pending \o SubSeq(toServer, 1, n))
          /\ toServer' = From(toServer, n) /\ UNCHANGED <<serverState, clientState>>
      BY <2>10 DEF readReady
    <3>2. pending \o SubSeq(toServer, 1, n) \in Bytes
      BY <2>0, <2>8, <3>1, InFront
    <3>3. heard' \in Seq(Bytes) /\ pending' \in Waiting /\ dropped' \in BOOLEAN /\ toServer' \in Bytes
      BY <2>7, <2>8, <3>1, <3>2
    <3>. QED BY <3>1, <3>3 DEF clientState, serverState
  <2>11. CASE UNCHANGED vars
    BY <2>11 DEF vars, serverState, clientState
  <2> HIDE DEF FramesTypeOK
  <2>. QED BY <2>1, <2>2, <2>3, <2>4, <2>5, <2>6, <2>9, <2>10, <2>11 DEF Next, Writing, Replies
<1>. QED BY <1>1, <1>2, PTL DEF Spec

\* A var int in front of what is on its way to the client reads as the value
\* written, and what may come first to the server reads as its groups add up.
THEOREM VarIntsRead == Spec => []VarIntsReadBack
<1>1. FramesTypeOK => VarIntsReadBack
  <2> SUFFICES ASSUME FramesTypeOK PROVE ReadBack /\ ReadsWhatIsThere
    BY DEF VarIntsReadBack
  <2>1. ReadBack
    BY WrittenReadsBack DEF FramesTypeOK, Bytes, ReadBack
  <2>2. ASSUME NEW n \in 0 .. MaxSize + 1, NEW b \in [1 .. n -> ByteValues] PROVE ReadsAsSummed(b)
    <3>1. n \in Nat
      OBVIOUS
    <3>2. b \in Seq(ByteValues)
      BY <3>1
    <3>. QED BY <3>2, BytesReadAsSummed
  <2>. QED BY <2>1, <2>2 DEF ReadsWhatIsThere
<1>. QED BY <1>1, FramesTyped, PTL

\* No whole frame ever waits in what the reactor holds.
THEOREM NoneWaits == Spec => []NoFrameWaits
<1>1. FramesTypeOK => NoFrameWaits
  <2> SUFFICES ASSUME FramesTypeOK PROVE NoFrameWaits
    OBVIOUS
  <2>1. pending \in Bytes /\ FrameIn(pending, MaxPacketSize) = Partial
    BY DEF FramesTypeOK, Waiting
  <2>2. FrameIn(pending, MaxPacketSize).is = "partial"
    BY <2>1 DEF Partial
  <2>3. MaxPacketSize \in Int /\ MaxPacketSize >= 0
    BY SizesAssumption
  <2>4. Len(pending) < MaxPacketSize + MaxSize
    <3>1. Partial # Invalid /\ \A size, body : Partial # Whole(size, body)
      BY DEF Partial, Invalid, Whole
    <3>. QED BY <2>1, <2>3, <3>1, FrameInType
  <2>. QED BY <2>2, <2>4 DEF NoFrameWaits
<1>. QED BY <1>1, FramesTyped, PTL

-------------------------------------------------------------------------------
(* What is on its way, and what has come of it                                *)

\* The bytes that have come and those that are to may be cut elsewhere.
LEMMA AheadAs ==
  \A rest, inner, n, limits, k, p, more, q, other :
    /\ Ahead(rest, inner, n, limits, k, p, more)
    /\ q \in Bytes /\ other \in Bytes /\ q \o other = p \o more
    => Ahead(rest, inner, n, limits, k, q, other)
  BY DEF Ahead

\* With one more frame behind the others, there is that much more to come.
LEMMA AheadBehind ==
  \A rest, inner, n, limits, k, p, more, x, longer :
    Ahead(rest, inner, n, limits, k, p, more) /\ Another(rest, inner, n, limits, x, longer) =>
      \E r : /\ Frame(x) \in Bytes
             /\ Ahead(r, longer, n + 1, limits, k, p, more \o Frame(x))
<1> SUFFICES ASSUME NEW rest, NEW inner, NEW n, NEW limits, NEW k, NEW p, NEW more, NEW x,
                    NEW longer, Ahead(rest, inner, n, limits, k, p, more),
                    Another(rest, inner, n, limits, x, longer)
             PROVE  \E r : /\ Frame(x) \in Bytes
                           /\ Ahead(r, longer, n + 1, limits, k, p, more \o Frame(x))
  OBVIOUS
<1>1. /\ n \in Nat /\ rest \in [0 .. n -> Bytes] /\ k \in 0 .. n /\ p \in Bytes /\ more \in Bytes
      /\ p \o more = rest[k]
  BY DEF Ahead, Laid
<1>2. Frame(x) \in Bytes
  BY FrameBytes DEF Another, Fits
<1>3. PICK r : /\ Laid(r, longer, n + 1, limits)
               /\ \A j \in 0 .. n : r[j] = rest[j] \o Frame(x)
  BY LaidBehind
<1> DEFINE f == Frame(x)
<1>4. r[k] = rest[k] \o f
  BY <1>1, <1>3
<1> HIDE DEF f
<1>5. f \in Bytes
  BY <1>2 DEF f
<1>6. (p \o more) \o f = p \o (more \o f) /\ more \o f \in Bytes
  <2>1. Associates(p, more, f)
    BY <1>1, <1>5, Together
  <2>. QED BY <2>1, Zenon DEF Associates
<1>7. p \o (more \o f) = r[k]
  BY <1>1, <1>4, <1>6
<1>8. k \in 0 .. n + 1
  BY <1>1
<1>9. Ahead(r, longer, n + 1, limits, k, p, more \o f)
  BY <1>1, <1>3, <1>6, <1>7, <1>8 DEF Ahead
<1>. QED BY <1>2, <1>9 DEF f

\* When nothing is left, all have come.
LEMMA AheadEnds ==
  \A rest, inner, n, limits, k, p, more :
    Ahead(rest, inner, n, limits, k, p, more) /\ p = <<>> /\ more = <<>> => k = n
<1> SUFFICES ASSUME NEW rest, NEW inner, NEW n, NEW limits, NEW k, NEW p, NEW more,
                    Ahead(rest, inner, n, limits, k, p, more), p = <<>>, more = <<>>
             PROVE  k = n
  OBVIOUS
<1> SUFFICES ASSUME k # n PROVE FALSE
  OBVIOUS
<1>1. /\ Laid(rest, inner, n, limits) /\ k \in 0 .. n /\ n \in Nat /\ rest \in [0 .. n -> Bytes]
      /\ p \o more = rest[k]
  BY DEF Ahead, Laid
<1>2. rest[k] = <<>>
  BY <1>1
<1> DEFINE j == k + 1
<1>3. j \in 1 .. n /\ j - 1 = k /\ j \in 0 .. n
  BY <1>1
<1> HIDE DEF j
<1>4. Fits(inner[j], limits) /\ rest[k] = Frame(inner[j]) \o rest[j] /\ rest[j] \in Bytes
  BY <1>1, <1>3 DEF Laid
<1> DEFINE f == Frame(inner[j])
           r == rest[j]
<1>5. f \in Bytes /\ Len(f) \in Nat \ {0}
  BY <1>4, FrameBytes DEF Fits
<1>6. r \in Bytes /\ f \o r = <<>>
  BY <1>2, <1>4
<1> HIDE DEF f, r
<1>7. Len(f \o r) = Len(f) + Len(r) /\ Len(r) \in Nat
  BY <1>5, <1>6, InFront, BytesLength
<1>8. Len(f \o r) = 0
  BY <1>6
<1>. QED BY <1>5, <1>7, <1>8

\* The threshold of the kth packet, of either direction.
At(k) == IF k = 1 THEN Off ELSE threshold

innerSent == [k \in 1 .. Len(wrote) |-> Inner(wrote[k], "fit", At(k))]
innerSaid == [k \in 1 .. Len(said) |-> Inner(said[k].body, said[k].form, At(k))]

\* The first packet the server writes is the announcement, if there is one.
Announced ==
  /\ wrote = <<>> <=> phase = "login" /\ threshold = Off
  /\ phase = "login" => Len(wrote) <= 1
  /\ phase # "login" /\ threshold # Off => Len(wrote) >= 2
  /\ Len(wrote) >= 1 =>
       wrote[1] = IF threshold = Off THEN LoginSuccess ELSE SetCompression(threshold)
  /\ Len(wrote) >= 2 /\ threshold # Off => wrote[2] = LoginSuccess
  /\ \A k \in 2 .. Len(wrote) : wrote[k] \in Packets
  /\ threshold # Off => heard # <<>>

\* The client has read what was written, and so knows the threshold.
Understood ==
  /\ Len(got) <= Len(wrote) /\ \A k \in 1 .. Len(got) : got[k] = wrote[k]
  /\ told = IF got = <<>> THEN Off ELSE threshold
  /\ settled => got # <<>> /\ phase # "login"
  /\ ~settled => Len(got) <= 1 /\ (got # <<>> => threshold # Off)

\* On its way to the client is what it has not read.
Coming ==
  \E rest : Ahead(rest, innerSent, Len(wrote), {MaxPacketSize}, Len(got), toClient, <<>>)

\* The client says hello, and no more until its login is settled.
Saying ==
  /\ said # <<>> => said[1] = [body |-> Hello, form |-> "fit"]
  /\ Len(said) > 1 => settled
  /\ \A k \in 2 .. Len(said) :
       /\ said[k].form = "short" => threshold # Off /\ Len(said[k].body) < threshold
       /\ said[k].form = "misstated" => threshold # Off /\ Len(said[k].body) >= threshold
  /\ ~taken => pending = <<>>

\* The server has read the first n frames, and what is on its way is the rest.
HeardFirst(n) ==
  /\ heard = FitAmong(said)[n]
  /\ \A k \in 1 .. n : said[k].form # "empty"
  /\ IF dropped THEN n < Len(said) /\ said[n + 1].form = "empty"
     ELSE \E rest : Ahead(rest, innerSaid, Len(said), Limits, n, pending, toServer)
Hearing == \E n \in 0 .. Len(said) : HeardFirst(n)

FramesInv == FramesTypeOK /\ Announced /\ Understood /\ Coming /\ Saying /\ Hearing

\* A step that writes nothing leaves what was written and how it is framed.
Elsewise ==
  \/ \E body \in Replies, form \in Forms : Say(body, form)
  \/ Get \/ ReadPacket \/ EnterPlay
  \/ \E n \in 0 .. ReadSize : register(n)
  \/ \E n \in 1 .. ReadSize : readReady(n)
  \/ UNCHANGED vars

\* What is written, the threshold and the phase's being login outlast it.
LEMMA ElsewiseKeeps ==
  ASSUME Elsewise
  PROVE  UNCHANGED <<threshold, wrote>> /\ (phase' = phase \/ (phase # "login" /\ phase' # "login"))
<1>1. ASSUME NEW body \in Replies, NEW form \in Forms, Say(body, form)
      PROVE  UNCHANGED <<threshold, wrote, phase>>
  BY <1>1 DEF Say, serverState
<1>2. Get => UNCHANGED <<threshold, wrote, phase>>
  BY DEF Get
<1>3. ReadPacket => UNCHANGED <<threshold, wrote, phase>>
  BY DEF ReadPacket, serverState
<1>4. EnterPlay => UNCHANGED <<threshold, wrote>> /\ phase # "login" /\ phase' # "login"
  BY DEF EnterPlay
<1>5. ASSUME NEW n \in 0 .. ReadSize, register(n) PROVE UNCHANGED <<threshold, wrote, phase>>
  BY <1>5 DEF register
<1>6. ASSUME NEW n \in 1 .. ReadSize, readReady(n) PROVE UNCHANGED <<threshold, wrote, phase>>
  BY <1>6 DEF readReady, serverState
<1>7. UNCHANGED vars => UNCHANGED <<threshold, wrote, phase>>
  BY DEF vars, serverState
<1>8. ASSUME UNCHANGED <<threshold, wrote, phase>>
      PROVE  UNCHANGED <<threshold, wrote>> /\ (phase' = phase \/ (phase # "login" /\ phase' # "login"))
  BY <1>8
<1>. QED BY <1>1, <1>2, <1>3, <1>4, <1>5, <1>6, <1>7, <1>8, Zenon DEF Elsewise

\* Every step is one of these.
LEMMA Steps ==
  ASSUME [Next]_vars
  PROVE  (\E t \in Thresholds : EnableCompression(t)) \/ Writing \/ Elsewise
  BY DEF Next, Writing, Elsewise, Replies

\* What has been heard is not forgotten.
LEMMA HeardStays ==
  ASSUME FramesTypeOK, [Next]_vars, heard # <<>>
  PROVE  heard' # <<>>
<1>1. ASSUME NEW d \in Seq(Bytes) PROVE heard \o d # <<>>
  <2>1. heard \in Seq(Bytes)
    BY DEF FramesTypeOK
  <2>2. Len(heard \o d) = Len(heard) + Len(d) /\ Len(heard) \in Nat \ {0} /\ Len(d) \in Nat
    BY <2>1
  <2>3. Len(heard \o d) # 0
    BY <2>2
  <2>. QED BY <2>3
<1>2. ASSUME NEW b \in Bytes, Serve(b) PROVE heard' # <<>>
  <2> DEFINE o == processPending(b)
  <2>1. o.heard \in Seq(Bytes)
    BY processPendingType DEF Outcomes
  <2>2. heard' = heard \o o.heard
    BY <1>2, Zenon DEF Serve
  <2> HIDE DEF o
  <2>. QED BY <1>1, <2>1, <2>2
<1>3. ASSUME NEW n \in Nat, n <= Len(toServer) PROVE SubSeq(toServer, 1, n) \in Bytes
  <2>1. toServer \in Bytes /\ n \in 0 .. Len(toServer)
    BY <1>3, BytesLength DEF FramesTypeOK
  <2>. QED BY <2>1, Splits
<1>4. CASE ReadPacket
  <2> DEFINE frame == FrameIn(toServer, maxSize)
  <2>1. UNCHANGED heard \/ (frame.is = "whole" /\ heard' = heard \o decodeBody(frame.body, maxSize))
    BY <1>4, Zenon DEF ReadPacket
  <2> HIDE DEF frame
  <2>2. ASSUME frame.is = "whole" PROVE decodeBody(frame.body, maxSize) \in Seq(Bytes)
    <3>1. maxSize \in Int /\ toServer \in Bytes
      BY SizesAssumption DEF maxSize, FramesTypeOK
    <3>2. frame # Partial /\ frame # Invalid
      BY <2>2 DEF Partial, Invalid
    <3>3. PICK size \in 1 .. Len(toServer), x \in Bytes : frame = Whole(size, x)
      BY <3>1, <3>2, FrameInType DEF frame
    <3>4. frame.body = x
      BY <3>3 DEF Whole
    <3>. QED BY <3>4, decodeBodyType
  <2>. QED BY <1>1, <2>1, <2>2
<1>5. ASSUME NEW n \in 0 .. ReadSize, register(n) PROVE heard' # <<>>
  <2>1. n \in Nat /\ n <= Len(toServer) /\ Serve(SubSeq(toServer, 1, n))
    BY <1>5 DEF register
  <2>. QED BY <1>2, <1>3, <2>1
<1>6. ASSUME NEW n \in 1 .. ReadSize, readReady(n) PROVE heard' # <<>>
  <2>1. n \in Nat /\ n <= Len(toServer) /\ Serve(pending \o SubSeq(toServer, 1, n))
    BY <1>6 DEF readReady
  <2>2. pending \in Bytes
    BY DEF FramesTypeOK, Waiting
  <2>3. pending \o SubSeq(toServer, 1, n) \in Bytes
    BY <1>3, <2>1, <2>2, InFront
  <2>. QED BY <1>2, <2>1, <2>3
<1>7. ASSUME NEW body, NEW form, Say(body, form) PROVE heard' = heard
  BY <1>7 DEF Say
<1>8. Get \/ EnterPlay \/ UNCHANGED vars => heard' = heard
  BY DEF Get, EnterPlay, vars
<1>9. (\E t \in Thresholds : EnableCompression(t)) => heard' = heard
  BY DEF EnableCompression
<1>10. Writing => heard' = heard
  BY WritingSends
<1>. QED BY <1>4, <1>5, <1>6, <1>7, <1>8, <1>9, <1>10, Steps DEF Elsewise

\* The announcement stays the first thing written.
LEMMA AnnouncedStays ==
  ASSUME FramesInv, [Next]_vars
  PROVE  Announced'
<1>1. FramesTypeOK /\ Announced /\ wrote \in Seq(Bytes)
  BY DEF FramesInv, FramesTypeOK
<1>2. threshold # Off => heard # <<>> /\ heard' # <<>>
  BY <1>1, HeardStays DEF Announced
<1>3. ASSUME NEW t \in Thresholds, EnableCompression(t) PROVE Announced'
  <2>1. wrote = <<>> /\ wrote' = Append(wrote, SetCompression(t)) /\ t # Off
        /\ threshold' = t /\ phase = "login" /\ phase' = phase /\ heard' = heard /\ heard # <<>>
    <3>1. t # Off
      BY ThresholdsAssumption DEF Off
    <3>. QED BY <1>1, <1>3, <3>1 DEF EnableCompression, writePacket, Announced
  <2>2. Len(wrote') = 1 /\ wrote'[1] = SetCompression(t) /\ wrote' # <<>>
    BY <2>1
  <2>. QED BY <2>1, <2>2 DEF Announced
<1>4. CASE Writing
  <2>1. PICK x \in Packets : Sends(x, threshold) /\ (phase = "login" => x = LoginSuccess)
    BY <1>1, <1>4, WritingSends
  <2>2. phase' # "login" /\ threshold' = threshold
    BY <1>1, <1>4, WritingSends
  <2> DEFINE n == Len(wrote)
  <2>3. /\ Len(wrote') = n + 1 /\ n \in Nat /\ wrote' # <<>>
        /\ wrote'[n + 1] = x /\ \A k \in 1 .. n : wrote'[k] = wrote[k]
    <3>1. wrote' = Append(wrote, x)
      BY <2>1 DEF Sends
    <3>. QED BY <1>1, <3>1
  <2>4. n = 0 => threshold = Off /\ phase = "login"
    BY <1>1 DEF Announced
  <2>5. n >= 1 => wrote[1] = IF threshold = Off THEN LoginSuccess ELSE SetCompression(threshold)
    BY <1>1 DEF Announced
  <2>6. n >= 2 /\ threshold # Off => wrote[2] = LoginSuccess
    BY <1>1 DEF Announced
  <2>7. \A k \in 2 .. n : wrote[k] \in Packets
    BY <1>1 DEF Announced
  <2>8. n < 2 /\ threshold # Off => phase = "login"
    BY <1>1, <2>3 DEF Announced
  <2> HIDE DEF n
  <2>9. wrote'[1] = IF threshold = Off THEN LoginSuccess ELSE SetCompression(threshold)
    <3>1. CASE n = 0
      BY <2>1, <2>3, <2>4, <3>1
    <3>2. CASE n # 0
      <4>1. n >= 1 /\ 1 \in 1 .. n
        BY <2>3, <3>2
      <4>. QED BY <2>3, <2>5, <4>1
    <3>. QED BY <3>1, <3>2
  <2>10. Len(wrote') >= 2 /\ threshold # Off => wrote'[2] = LoginSuccess
    <3>1. CASE n = 1 /\ threshold # Off
      BY <2>1, <2>3, <2>8, <3>1
    <3>2. CASE n >= 2 /\ threshold # Off
      <4>1. 2 \in 1 .. n
        BY <2>3, <3>2
      <4>. QED BY <2>3, <2>6, <3>2, <4>1
    <3>3. CASE n = 0 \/ threshold = Off
      BY <2>3, <3>3
    <3>. QED BY <2>3, <3>1, <3>2, <3>3
  <2>11. \A k \in 2 .. Len(wrote') : wrote'[k] \in Packets
    <3>1. ASSUME NEW k \in 2 .. n + 1 PROVE wrote'[k] \in Packets
      <4>1. CASE k = n + 1
        BY <2>3, <4>1
      <4>2. CASE k # n + 1
        <5>1. k \in 2 .. n /\ k \in 1 .. n
          BY <2>3, <4>2
        <5>. QED BY <2>3, <2>7, <5>1
      <4>. QED BY <4>1, <4>2
    <3>. QED BY <2>3, <3>1
  <2>12. threshold # Off => Len(wrote') >= 2
    BY <2>3, <2>4
  <2>. QED BY <1>2, <2>2, <2>3, <2>9, <2>10, <2>11, <2>12 DEF Announced
<1>5. CASE Elsewise
  <2>1. wrote' = wrote /\ threshold' = threshold
        /\ (phase' = phase \/ (phase # "login" /\ phase' # "login"))
    BY <1>5, ElsewiseKeeps
  <2>2. \A k \in 2 .. Len(wrote') : wrote'[k] \in Packets
    BY <1>1, <2>1 DEF Announced
  <2>3. /\ wrote = <<>> <=> phase = "login" /\ threshold = Off
        /\ phase = "login" => Len(wrote) <= 1
        /\ phase # "login" /\ threshold # Off => Len(wrote) >= 2
        /\ Len(wrote) >= 1 =>
             wrote[1] = IF threshold = Off THEN LoginSuccess ELSE SetCompression(threshold)
        /\ Len(wrote) >= 2 /\ threshold # Off => wrote[2] = LoginSuccess
    BY <1>1 DEF Announced
  <2>4. /\ wrote' = <<>> <=> phase' = "login" /\ threshold' = Off
        /\ phase' = "login" => Len(wrote') <= 1
        /\ phase' # "login" /\ threshold' # Off => Len(wrote') >= 2
    BY <2>1, <2>3
  <2>5. /\ Len(wrote') >= 1 =>
             wrote'[1] = IF threshold' = Off THEN LoginSuccess ELSE SetCompression(threshold')
        /\ Len(wrote') >= 2 /\ threshold' # Off => wrote'[2] = LoginSuccess
    BY <2>1, <2>3
  <2>. QED BY <1>2, <2>1, <2>2, <2>4, <2>5 DEF Announced
<1>. QED BY <1>3, <1>4, <1>5, Steps

\* What the client gets is the next body written.
LEMMA GetGets ==
  ASSUME FramesInv, Get
  PROVE  LET k == Len(got) + 1
         IN  /\ k \in 1 .. Len(wrote)
             /\ got' = Append(got, wrote[k])
             /\ told' = IF ~settled /\ \E t \in Thresholds : wrote[k] = SetCompression(t)
                        THEN CHOOSE t \in Thresholds : wrote[k] = SetCompression(t)
                        ELSE told
             /\ settled' = (settled \/ wrote[k] = LoginSuccess)
             /\ UNCHANGED <<phase, threshold, taken, wrote, said, toServer, pending, dropped, heard>>
             /\ Coming'
<1> DEFINE n == Len(wrote)
           k == Len(got) + 1
           frame == FrameIn(toClient, MaxPacketSize)
           body == IF told = Off THEN Made(frame.body)
                   ELSE DecompressBody(frame.body, told, MaxPacketSize)
<1>1. /\ wrote \in Seq(Bytes) /\ got \in Seq(Bytes) /\ threshold \in Thresholds \cup {Off}
      /\ toClient \in Bytes /\ Announced /\ Understood /\ Coming
  BY DEF FramesInv, FramesTypeOK
<1>2. /\ frame.is = "whole" /\ toClient' = From(toClient, frame.size)
      /\ got' = Append(got, body.body)
      /\ told' = IF ~settled /\ \E t \in Thresholds : body.body = SetCompression(t)
                 THEN CHOOSE t \in Thresholds : body.body = SetCompression(t)
                 ELSE told
      /\ settled' = (settled \/ body.body = LoginSuccess)
      /\ UNCHANGED <<phase, threshold, taken, wrote, said, toServer, pending, dropped, heard>>
  BY Zenon DEF Get
<1>3. n \in Nat /\ Len(got) \in Nat /\ n = Len(wrote)
  BY <1>1
<1>4. PICK rest : Ahead(rest, innerSent, n, {MaxPacketSize}, Len(got), toClient, <<>>)
  BY <1>1 DEF Coming
<1>5. MaxPacketSize \in {MaxPacketSize} /\ MaxPacketSize \in Nat
  BY SizesAssumption
<1> HIDE DEF frame, n
<1>6. /\ k \in 1 .. n
      /\ \E size \in 1 .. Len(toClient) :
           /\ frame = Whole(size, innerSent[k])
           /\ Ahead(rest, innerSent, n, {MaxPacketSize}, k, From(toClient, size), <<>>)
  <2>1. frame # Partial /\ frame # Invalid
    BY <1>2 DEF Partial, Invalid
  <2> DEFINE i == innerSent
             m == {MaxPacketSize}
  <2>2. Ahead(rest, i, n, m, Len(got), toClient, <<>>) /\ MaxPacketSize \in m /\ MaxPacketSize \in Nat
    BY <1>4, <1>5
  <2> HIDE DEF i, m
  <2>3. \/ FrameIn(toClient, MaxPacketSize) = Partial
        \/ /\ k \in 1 .. n /\ i[k] = <<>> /\ FrameIn(toClient, MaxPacketSize) = Invalid
        \/ /\ k \in 1 .. n /\ i[k] # <<>> /\ i[k] \in Bytes
           /\ \E size \in 1 .. Len(toClient) :
                /\ FrameIn(toClient, MaxPacketSize) = Whole(size, i[k])
                /\ Ahead(rest, i, n, m, k, From(toClient, size), <<>>)
    BY <2>2, AheadIs
  <2>. QED BY <2>1, <2>3 DEF frame, i, m
<1>7. PICK size \in 1 .. Len(toClient) :
        /\ frame = Whole(size, innerSent[k])
        /\ Ahead(rest, innerSent, n, {MaxPacketSize}, k, From(toClient, size), <<>>)
  BY <1>6
<1>8. frame.size = size /\ frame.body = innerSent[k]
  BY <1>7 DEF Whole
<1>9. innerSent[k] = Inner(wrote[k], "fit", At(k))
  BY <1>6 DEF innerSent, n
<1>10. told = At(k)
  <2>1. CASE got = <<>>
    <3>1. k = 1
      BY <2>1
    <3>. QED BY <1>1, <2>1, <3>1 DEF Understood, At
  <2>2. CASE got # <<>>
    <3>1. k # 1
      BY <1>1, <2>2
    <3>. QED BY <1>1, <2>2, <3>1 DEF Understood, At
  <2>. QED BY <2>1, <2>2
<1>11. body.body = wrote[k]
  <2>1. CASE told = Off
    <3>1. Inner(wrote[k], "fit", At(k)) = wrote[k]
      BY <1>10, <2>1 DEF Inner
    <3>2. body = Made(wrote[k])
      BY <1>8, <1>9, <2>1, <3>1
    <3>. QED BY <3>2 DEF Made
  <2>2. CASE told # Off
    <3>1. k # 1 /\ told = threshold /\ told \in Thresholds
      BY <1>1, <1>10, <2>2 DEF At
    <3>2. wrote[k] \in Packets
      <4>1. k \in 2 .. Len(wrote)
        BY <1>3, <1>6, <3>1
      <4>. QED BY <1>1, <4>1 DEF Announced
    <3>3. Inner(wrote[k], "fit", At(k)) = CompressBody(wrote[k], told)
      BY <1>10, <2>2 DEF Inner
    <3>4. DecompressBody(CompressBody(wrote[k], told), told, MaxPacketSize) = Made(wrote[k])
      BY <3>1, <3>2, RoomIs, Deflates
    <3>5. body = Made(wrote[k])
      BY <1>8, <1>9, <2>2, <3>3, <3>4
    <3>. QED BY <3>5 DEF Made
  <2>. QED BY <2>1, <2>2
<1> HIDE DEF body
<1>12. Coming'
  <2>1. Len(got') = k
    BY <1>1, <1>2
  <2>2. innerSent' = innerSent
    BY <1>2 DEF innerSent, At
  <2>3. toClient' = From(toClient, size) /\ Len(wrote') = n
    BY <1>2, <1>3, <1>8
  <2> HIDE DEF k
  <2>4. Ahead(rest, innerSent', Len(wrote'), {MaxPacketSize}, Len(got'), toClient', <<>>)
    BY <1>7, <2>1, <2>2, <2>3
  <2>. QED BY <2>4 DEF Coming
<1>13. k \in 1 .. Len(wrote)
  BY <1>6 DEF n
<1>. QED BY <1>2, <1>11, <1>12, <1>13, Zenon

\* The client keeps knowing the threshold of what it is to read.
LEMMA UnderstoodStays ==
  ASSUME FramesInv, [Next]_vars
  PROVE  Understood'
<1>1. /\ FramesTypeOK /\ wrote \in Seq(Bytes) /\ got \in Seq(Bytes)
      /\ threshold \in Thresholds \cup {Off} /\ Announced /\ Understood
  BY DEF FramesInv, FramesTypeOK
<1>2. ASSUME NEW t \in Thresholds, EnableCompression(t) PROVE Understood'
  <2>1. wrote = <<>> /\ threshold = Off /\ UNCHANGED <<phase, clientState>>
    BY <1>1, <1>2 DEF EnableCompression, Announced
  <2>2. got = <<>>
    BY <1>1, <2>1 DEF Understood
  <2>3. Len(got') = 0 /\ Len(wrote') \in Nat /\ got' = <<>>
    <3>1. wrote' = Append(wrote, SetCompression(t))
      BY <1>2, EnablingSends DEF Sends
    <3>. QED BY <2>1, <2>2, <3>1 DEF clientState
  <2>4. told' = Off /\ ~settled'
    BY <1>1, <2>1, <2>2 DEF Understood, clientState
  <2>. QED BY <2>3, <2>4 DEF Understood
<1>3. CASE Writing
  <2>1. PICK x \in Packets : Sends(x, threshold)
    BY <1>1, <1>3, WritingSends
  <2>2. phase' # "login" /\ UNCHANGED <<threshold, clientState>>
    BY <1>1, <1>3, WritingSends
  <2>3. wrote' = Append(wrote, x)
    BY <2>1 DEF Sends
  <2>4. Len(wrote') = Len(wrote) + 1 /\ \A k \in 1 .. Len(wrote) : wrote'[k] = wrote[k]
    BY <1>1, <2>3
  <2>5. Len(got) <= Len(wrote') /\ \A k \in 1 .. Len(got) : got[k] = wrote'[k]
    <3>1. Len(got) \in Nat /\ Len(wrote) \in Nat
      BY <1>1
    <3>2. Len(got) <= Len(wrote) /\ \A k \in 1 .. Len(got) : got[k] = wrote[k]
      BY <1>1 DEF Understood
    <3>3. \A k \in 1 .. Len(got) : k \in 1 .. Len(wrote)
      BY <3>1, <3>2
    <3>. QED BY <2>4, <3>1, <3>2, <3>3
  <2>6. told' = told /\ got' = got /\ settled' = settled
    BY <2>2 DEF clientState
  <2>7. /\ told = IF got = <<>> THEN Off ELSE threshold
        /\ settled => got # <<>>
        /\ ~settled => Len(got) <= 1 /\ (got # <<>> => threshold # Off)
    BY <1>1 DEF Understood
  <2>. QED BY <2>2, <2>5, <2>6, <2>7 DEF Understood
<1>4. CASE Get
  <2> DEFINE n == Len(got)
             k == n + 1
             w == wrote[k]
  <2>1. /\ k \in 1 .. Len(wrote) /\ got' = Append(got, w)
        /\ told' = IF ~settled /\ \E t \in Thresholds : w = SetCompression(t)
                   THEN CHOOSE t \in Thresholds : w = SetCompression(t)
                   ELSE told
        /\ settled' = (settled \/ w = LoginSuccess)
        /\ UNCHANGED <<phase, threshold, wrote>>
    BY <1>4, GetGets
  <2>2. n \in Nat /\ Len(wrote) \in Nat
    BY <1>1
  <2>3. Len(got') = n + 1 /\ got' # <<>> /\ \A j \in 1 .. n + 1 : got'[j] = wrote[j]
    <3>1. \A j \in 1 .. n : got[j] = wrote[j]
      BY <1>1 DEF Understood
    <3>2. Len(got') = n + 1 /\ got'[n + 1] = w /\ \A j \in 1 .. n : got'[j] = got[j]
      BY <1>1, <2>1
    <3>3. \A j \in 1 .. n + 1 : j = n + 1 \/ j \in 1 .. n
      BY <2>2
    <3>. QED BY <2>2, <3>1, <3>2, <3>3
  <2>4. /\ \A t \in Thresholds : SetCompression(t) # LoginSuccess
        /\ \A t, u \in Thresholds : SetCompression(t) = SetCompression(u) => t = u
    BY SetCompressionIs
  <2> HIDE DEF w
  <2>5. told' = threshold /\ (settled' => phase # "login")
        /\ (~settled' => n = 0 /\ threshold # Off)
    <3>1. CASE n = 0
      <4>1. got = <<>> /\ ~settled /\ told = Off
        BY <1>1, <3>1 DEF Understood
      <4>2. Len(wrote) >= 1 /\ w = wrote[1]
        BY <2>1, <2>2, <3>1 DEF w
      <4>3. w = IF threshold = Off THEN LoginSuccess ELSE SetCompression(threshold)
        BY <1>1, <4>2 DEF Announced
      <4>4. CASE threshold = Off
        <5>1. w = LoginSuccess /\ ~(\E t \in Thresholds : w = SetCompression(t))
          BY <2>4, <4>3, <4>4
        <5>2. told' = Off /\ settled'
          BY <2>1, <4>1, <5>1
        <5>3. phase # "login"
          BY <1>1, <4>2, <4>4 DEF Announced
        <5>. QED BY <4>4, <5>2, <5>3
      <4>5. CASE threshold # Off
        <5>1. threshold \in Thresholds /\ w = SetCompression(threshold) /\ w # LoginSuccess
          BY <1>1, <2>4, <4>3, <4>5
        <5>2. (CHOOSE t \in Thresholds : w = SetCompression(t)) = threshold
          BY <2>4, <5>1
        <5>3. told' = threshold /\ ~settled'
          BY <2>1, <4>1, <5>1, <5>2
        <5>. QED BY <3>1, <4>5, <5>3
      <4>. QED BY <4>4, <4>5
    <3>2. CASE n # 0
      <4>1. got # <<>> /\ told = threshold
        BY <1>1, <3>2 DEF Understood
      <4>2. CASE settled
        <5>1. told' = told /\ settled'
          BY <2>1, <4>2
        <5>2. phase # "login"
          BY <1>1, <4>2 DEF Understood
        <5>. QED BY <4>1, <5>1, <5>2
      <4>3. CASE ~settled
        <5>1. n <= 1 /\ threshold # Off
          BY <1>1, <4>1, <4>3 DEF Understood
        <5>2. k = 2 /\ Len(wrote) >= 2
          BY <2>1, <2>2, <3>2, <5>1
        <5>3. w = LoginSuccess /\ phase # "login"
          <6>1. Len(wrote) >= 2 /\ ~(Len(wrote) <= 1)
            BY <2>2, <5>2
          <6>2. wrote[2] = LoginSuccess /\ phase # "login"
            BY <1>1, <5>1, <6>1 DEF Announced
          <6>3. w = wrote[2]
            BY <5>2 DEF w
          <6>. QED BY <6>2, <6>3
        <5>4. ~(\E t \in Thresholds : w = SetCompression(t))
          BY <2>4, <5>3
        <5>5. told' = told /\ settled'
          BY <2>1, <5>3, <5>4
        <5>. QED BY <4>1, <5>3, <5>5
      <4>. QED BY <4>2, <4>3
    <3>. QED BY <3>1, <3>2
  <2>6. Len(got') <= Len(wrote') /\ \A j \in 1 .. Len(got') : got'[j] = wrote'[j]
    BY <2>1, <2>2, <2>3
  <2>7. ~settled' => Len(got') <= 1 /\ threshold' # Off
    BY <2>1, <2>3, <2>5
  <2>8. told' = threshold' /\ got' # <<>> /\ (settled' => phase' # "login")
    BY <2>1, <2>3, <2>5
  <2> HIDE DEF k, n
  <2>. QED BY <2>6, <2>7, <2>8 DEF Understood
<1>5. CASE Elsewise /\ ~Get
  <2>1. wrote' = wrote /\ threshold' = threshold
        /\ (phase' = phase \/ (phase # "login" /\ phase' # "login"))
    BY <1>5, ElsewiseKeeps
  <2>2. UNCHANGED <<got, told, settled>>
    <3>1. ASSUME NEW body, NEW form, Say(body, form) PROVE UNCHANGED <<got, told, settled>>
      BY <3>1 DEF Say
    <3>2. ReadPacket \/ EnterPlay \/ UNCHANGED vars => UNCHANGED <<got, told, settled>>
      BY DEF ReadPacket, EnterPlay, vars, clientState
    <3>3. ASSUME NEW m, register(m) \/ readReady(m) PROVE UNCHANGED <<got, told, settled>>
      BY <3>3 DEF register, readReady, clientState
    <3>. QED BY <1>5, <3>1, <3>2, <3>3 DEF Elsewise
  <2>3. Len(got') <= Len(wrote') /\ \A j \in 1 .. Len(got') : got'[j] = wrote'[j]
    BY <1>1, <2>1, <2>2 DEF Understood
  <2>4. /\ told' = IF got' = <<>> THEN Off ELSE threshold'
        /\ settled' => got' # <<>> /\ phase' # "login"
        /\ ~settled' => Len(got') <= 1 /\ (got' # <<>> => threshold' # Off)
    <3>1. /\ told = IF got = <<>> THEN Off ELSE threshold
          /\ settled => got # <<>> /\ phase # "login"
          /\ ~settled => Len(got) <= 1 /\ (got # <<>> => threshold # Off)
      BY <1>1 DEF Understood
    <3>. QED BY <2>1, <2>2, <3>1
  <2>. QED BY <2>3, <2>4 DEF Understood
<1>. QED BY <1>2, <1>3, <1>4, <1>5, Steps

\* On its way to the client stays what it has not read.
LEMMA ComingStays ==
  ASSUME FramesInv, [Next]_vars
  PROVE  Coming'
<1> DEFINE n == Len(wrote)
           M == {MaxPacketSize}
           Then(k) == IF k = 1 THEN Off ELSE threshold'
<1>1. /\ FramesTypeOK /\ wrote \in Seq(Bytes) /\ Announced /\ Coming /\ n \in Nat /\ toClient \in Bytes
      /\ threshold \in Thresholds \cup {Off}
  BY DEF FramesInv, FramesTypeOK
<1>2. PICK rest : Ahead(rest, innerSent, n, M, Len(got), toClient, <<>>)
  BY <1>1 DEF Coming
<1>3. ASSUME NEW w, NEW x, wrote' = Append(wrote, w), UNCHANGED got, Frame(x) \in Bytes,
             toClient' = toClient \o Frame(x),
             Another(rest, innerSent, n, M, x, innerSent')
      PROVE  Coming'
  <2> DEFINE f == Frame(x)
             s == innerSent
             z == innerSent'
  <2>1. PICK r : Ahead(r, z, n + 1, M, Len(got), toClient, <<>> \o f)
    <3> HIDE DEF n, M
    <3>. QED BY <1>2, <1>3, AheadBehind
  <2> HIDE DEF f, z
  <2>2. f \in Bytes
    BY <1>3 DEF f
  <2>3. <<>> \o f = f /\ <<>> \in Bytes
    BY <2>2 DEF Bytes
  <2> DEFINE q == toClient \o f
  <2>4. q \in Bytes
    BY <1>1, <2>2, InFront
  <2>5. q \o <<>> = q
    <3> HIDE DEF q
    <3>. QED BY <2>4 DEF Bytes
  <2>6. Ahead(r, z, n + 1, M, Len(got), q, <<>>)
    <3>1. Ahead(r, z, n + 1, M, Len(got), toClient, f)
      BY <2>1, <2>3
    <3>2. q \o <<>> = toClient \o f
      BY <2>5
    <3> HIDE DEF q, M
    <3>. QED BY <2>3, <2>4, <3>1, <3>2, AheadAs
  <2>7. Len(wrote') = n + 1 /\ toClient' = q
    BY <1>1, <1>3 DEF f
  <2>8. Len(got') = Len(got)
    BY <1>3
  <2> HIDE DEF q, n
  <2>9. Ahead(r, z, Len(wrote'), M, Len(got'), toClient', <<>>)
    BY <2>6, <2>7, <2>8
  <2>. QED BY <2>9 DEF Coming, z
<1>4. Laid(rest, innerSent, n, M)
  BY <1>2 DEF Ahead
<1>5. ASSUME NEW w, wrote' = Append(wrote, w), n = 0 \/ threshold' = threshold
      PROVE  /\ \A k \in 1 .. n : innerSent'[k] = innerSent[k]
             /\ innerSent'[n + 1] = Inner(w, "fit", Then(n + 1))
  <2>1. Len(wrote') = n + 1 /\ wrote'[n + 1] = w /\ \A k \in 1 .. n : wrote'[k] = wrote[k]
    BY <1>1, <1>5
  <2>2. \A k \in 1 .. n : Then(k) = At(k)
    BY <1>1, <1>5 DEF At
  <2>3. \A k \in 1 .. n + 1 : innerSent'[k] = Inner(wrote'[k], "fit", Then(k))
    BY <2>1 DEF innerSent, At
  <2>4. \A k \in 1 .. n : innerSent[k] = Inner(wrote[k], "fit", At(k))
    BY DEF innerSent
  <2>5. n + 1 \in 1 .. n + 1 /\ \A k \in 1 .. n : k \in 1 .. n + 1
    BY <1>1
  <2> HIDE DEF n, Then
  <2>6. innerSent'[n + 1] = Inner(w, "fit", Then(n + 1))
    BY <2>1, <2>3, <2>5
  <2>7. \A k \in 1 .. n : innerSent'[k] = innerSent[k]
    BY <2>1, <2>2, <2>3, <2>4, <2>5
  <2>. QED BY <2>6, <2>7
<1>6. ASSUME NEW t \in Thresholds, EnableCompression(t) PROVE Coming'
  <2> DEFINE x == SetCompression(t)
  <2>1. Sends(x, Off)
    BY <1>6, EnablingSends
  <2>2. wrote = <<>> /\ n = 0 /\ UNCHANGED got
    <3>1. wrote = <<>> /\ UNCHANGED got
      BY <1>1, <1>6 DEF EnableCompression, Announced, clientState
    <3>. QED BY <3>1
  <2>3. Inner(x, "fit", Off) = x /\ Frame(x) \in Bytes /\ Fits(x, M)
    BY SentBytes, SetCompressionIs
  <2>4. wrote' = Append(wrote, x) /\ toClient' = toClient \o Frame(x)
    BY <2>1, <2>3 DEF Sends
  <2>5. innerSent'[n + 1] = x /\ \A k \in 1 .. n : innerSent'[k] = innerSent[k]
    <3>1. Then(n + 1) = Off
      BY <2>2
    <3> HIDE DEF x, n, Then
    <3>. QED BY <1>5, <2>2, <2>3, <2>4, <3>1
  <2> HIDE DEF x, n, M
  <2>6. Another(rest, innerSent, n, M, x, innerSent')
    BY <1>4, <2>3, <2>5 DEF Another
  <2>. QED BY <1>3, <2>2, <2>3, <2>4, <2>6
<1>7. CASE Writing
  <2>1. PICK w \in Packets : Sends(w, threshold)
    BY <1>1, <1>7, WritingSends
  <2>2. UNCHANGED <<threshold, got>>
    BY <1>1, <1>7, WritingSends DEF clientState
  <2> DEFINE x == Inner(w, "fit", threshold)
  <2>3. wrote' = Append(wrote, w) /\ toClient' = toClient \o Frame(x)
    BY <2>1 DEF Sends
  <2>4. Then(n + 1) = threshold
    <3>1. CASE n = 0
      <4>1. threshold = Off
        BY <1>1, <3>1 DEF Announced
      <4>. QED BY <2>2, <3>1, <4>1
    <3>2. CASE n # 0
      <4>1. n + 1 # 1
        BY <1>1, <3>2
      <4>. QED BY <2>2, <4>1
    <3>. QED BY <3>1, <3>2
  <2>5. Frame(x) \in Bytes /\ Fits(x, M)
    <3>1. "fit" \in Forms
      BY DEF Forms
    <3>2. Fits(x, Room(w)) /\ Frame(x) \in Bytes
      BY <3>1, InnerFits, SentBytes
    <3>. QED BY <3>2, RoomIs DEF Fits
  <2>6. innerSent'[n + 1] = x /\ \A k \in 1 .. n : innerSent'[k] = innerSent[k]
    <3> HIDE DEF n, Then
    <3>. QED BY <1>5, <2>2, <2>3, <2>4
  <2> HIDE DEF x, n, M
  <2>7. Another(rest, innerSent, n, M, x, innerSent')
    BY <1>4, <2>5, <2>6 DEF Another
  <2>. QED BY <1>3, <2>2, <2>3, <2>5, <2>7
<1>8. CASE Get
  BY <1>8, GetGets
<1>9. CASE Elsewise /\ ~Get
  <2>1. wrote' = wrote /\ threshold' = threshold
    BY <1>9, ElsewiseKeeps
  <2>2. UNCHANGED <<got, toClient>>
    <3>1. ASSUME NEW body, NEW form, Say(body, form) PROVE UNCHANGED <<got, toClient>>
      BY <3>1 DEF Say, serverState
    <3>2. ReadPacket \/ EnterPlay \/ UNCHANGED vars => UNCHANGED <<got, toClient>>
      BY DEF ReadPacket, EnterPlay, vars, clientState, serverState
    <3>3. ASSUME NEW m, register(m) \/ readReady(m) PROVE UNCHANGED <<got, toClient>>
      BY <3>3 DEF register, readReady, clientState, serverState
    <3>. QED BY <1>9, <3>1, <3>2, <3>3 DEF Elsewise
  <2>3. innerSent' = innerSent
    BY <2>1 DEF innerSent, At
  <2>4. Ahead(rest, innerSent', Len(wrote'), M, Len(got'), toClient', <<>>)
    BY <1>2, <2>1, <2>2, <2>3
  <2>. QED BY <2>4 DEF Coming
<1>. QED BY <1>6, <1>7, <1>8, <1>9, Steps

\* What the client says is framed for the threshold, which it knows by then.
LEMMA SayingStays ==
  ASSUME FramesInv, [Next]_vars
  PROVE  Saying'
<1> DEFINE Known(k, t) ==
             /\ said[k].form = "short" => t # Off /\ Len(said[k].body) < t
             /\ said[k].form = "misstated" => t # Off /\ Len(said[k].body) >= t
<1>1. /\ FramesTypeOK /\ Understood /\ Saying /\ said \in Seq(Sayings) /\ Len(said) \in Nat
      /\ taken \in BOOLEAN
  BY DEF FramesInv, FramesTypeOK
<1>2. /\ said # <<>> => said[1] = [body |-> Hello, form |-> "fit"]
      /\ Len(said) > 1 => settled
      /\ \A k \in 2 .. Len(said) : Known(k, threshold)
      /\ ~taken => pending = <<>>
  BY <1>1, Zenon DEF Saying
<1>3. ASSUME said' = said, \A k \in 2 .. Len(said) : Known(k, threshold'),
             settled => settled', ~taken' => pending' = <<>>
      PROVE  Saying'
  <2>1. /\ said' # <<>> => said'[1] = [body |-> Hello, form |-> "fit"]
        /\ Len(said') > 1 => settled'
    BY <1>2, <1>3
  <2>2. \A k \in 2 .. Len(said') :
          /\ said'[k].form = "short" => threshold' # Off /\ Len(said'[k].body) < threshold'
          /\ said'[k].form = "misstated" => threshold' # Off /\ Len(said'[k].body) >= threshold'
    BY <1>3
  <2>. QED BY <1>3, <2>1, <2>2 DEF Saying
<1>4. ASSUME NEW t \in Thresholds, EnableCompression(t) PROVE Saying'
  <2>1. phase = "login" /\ UNCHANGED <<taken, pending, said, settled>>
    BY <1>4 DEF EnableCompression, clientState
  <2>2. ~settled
    BY <1>1, <2>1 DEF Understood
  <2>3. \A k \in 2 .. Len(said) : Known(k, threshold')
    <3>1. ~(Len(said) > 1)
      BY <1>2, <2>2
    <3>2. \A k \in 2 .. Len(said) : FALSE
      BY <1>1, <3>1
    <3>. QED BY <3>2
  <2>. QED BY <1>2, <1>3, <2>1, <2>3
<1>5. CASE Writing
  <2>1. UNCHANGED <<threshold, taken, said, settled, pending>>
    BY <1>1, <1>5, WritingSends DEF clientState
  <2>. QED BY <1>2, <1>3, <2>1
<1>6. ASSUME NEW body \in Replies, NEW form \in Forms, Say(body, form) PROVE Saying'
  <2> DEFINE x == [body |-> body, form |-> form]
  <2>1. /\ IF said = <<>> THEN body = Hello /\ form = "fit" ELSE settled /\ body \in Spoken
        /\ CanBeIn(body, form) /\ said' = Append(said, x)
        /\ UNCHANGED <<threshold, taken, settled, pending>>
    BY <1>6 DEF Say, serverState
  <2>2. x \in Sayings /\ x.body = body /\ x.form = form
    BY DEF Sayings
  <2>3. x = [body |-> Hello, form |-> "fit"] \/ said # <<>>
    BY <2>1
  <2> HIDE DEF x
  <2>4. /\ Len(said') = Len(said) + 1 /\ said'[Len(said) + 1] = x
        /\ \A k \in 1 .. Len(said) : said'[k] = said[k]
    BY <1>1, <2>1, <2>2
  <2>5. said'[1] = [body |-> Hello, form |-> "fit"]
    <3>1. CASE said = <<>>
      <4>1. Len(said) + 1 = 1
        BY <3>1
      <4>. QED BY <2>3, <2>4, <3>1, <4>1
    <3>2. CASE said # <<>>
      <4>1. 1 \in 1 .. Len(said)
        BY <1>1, <3>2
      <4>. QED BY <1>2, <2>4, <3>2, <4>1
    <3>. QED BY <3>1, <3>2
  <2>6. Len(said') > 1 => settled'
    <3>1. CASE said = <<>>
      BY <2>4, <3>1
    <3>2. CASE said # <<>>
      BY <2>1, <3>2
    <3>. QED BY <3>1, <3>2
  <2>7. ASSUME NEW k \in 2 .. Len(said')
        PROVE  /\ said'[k].form = "short" => threshold' # Off /\ Len(said'[k].body) < threshold'
               /\ said'[k].form = "misstated" => threshold' # Off /\ Len(said'[k].body) >= threshold'
    <3>1. CASE k \in 2 .. Len(said)
      <4>1. said'[k] = said[k]
        <5>1. k \in 1 .. Len(said)
          BY <3>1
        <5>. QED BY <2>4, <5>1
      <4>2. Known(k, threshold)
        BY <1>2, <3>1
      <4>. QED BY <2>1, <4>1, <4>2
    <3>2. CASE k \notin 2 .. Len(said)
      <4>1. k = Len(said) + 1 /\ Len(said) # 0
        BY <1>1, <2>4, <3>2
      <4>2. said # <<>> /\ said'[k] = x
        BY <2>4, <4>1
      <4>3. told = threshold
        BY <1>1, <2>1, <4>2 DEF Understood
      <4>4. /\ form = "short" => told # Off /\ Len(body) < told
            /\ form = "misstated" => told # Off /\ Len(body) >= told
        BY <2>1 DEF CanBeIn
      <4>. QED BY <2>1, <2>2, <4>2, <4>3, <4>4
    <3>. QED BY <3>1, <3>2
  <2>8. ~taken' => pending' = <<>>
    BY <1>2, <2>1
  <2>. QED BY <2>5, <2>6, <2>7, <2>8 DEF Saying
<1>7. CASE Elsewise /\ ~(\E body \in Replies, form \in Forms : Say(body, form))
  <2>1. threshold' = threshold
    BY <1>7, ElsewiseKeeps
  <2>2. said' = said /\ (settled => settled')
    <3>1. Get => said' = said /\ (settled => settled')
      <4>1. Get => UNCHANGED said
        BY DEF Get
      <4>2. Get => (settled => settled')
        BY GetGets
      <4>. QED BY <4>1, <4>2
    <3>2. ReadPacket \/ EnterPlay \/ UNCHANGED vars => UNCHANGED <<said, settled>>
      BY DEF ReadPacket, EnterPlay, vars, clientState
    <3>3. ASSUME NEW m, register(m) \/ readReady(m) PROVE UNCHANGED <<said, settled>>
      BY <3>3 DEF register, readReady, clientState
    <3>. QED BY <1>7, <3>1, <3>2, <3>3 DEF Elsewise
  <2>3. ~taken' => pending' = <<>>
    <3>1. Get \/ ReadPacket \/ EnterPlay \/ UNCHANGED vars => UNCHANGED <<taken, pending>>
      BY DEF Get, ReadPacket, EnterPlay, vars, serverState
    <3>2. ASSUME NEW m, register(m) PROVE taken'
      BY <3>2 DEF register
    <3>3. ASSUME NEW m, readReady(m) PROVE taken'
      BY <3>3 DEF readReady, serverState
    <3>. QED BY <1>2, <1>7, <3>1, <3>2, <3>3 DEF Elsewise
  <2>. QED BY <1>2, <1>3, <2>1, <2>2, <2>3
<1>. QED BY <1>4, <1>5, <1>6, <1>7, Steps

\* What is not empty of what is to come is heard, if it is framed well.
LEMMA SaidDecodes ==
  ASSUME FramesInv, NEW n \in 0 .. Len(said), heard = FitAmong(said)[n],
         NEW j \in n + 1 .. Len(said), innerSaid[j] # <<>>, NEW max \in Limits
  PROVE  FitAmong(said)[j] = FitAmong(said)[j - 1] \o decodeBody(innerSaid[j], max)
<1> DEFINE x == said[j]
           f == FitAmong(said)
<1>1. /\ FramesTypeOK /\ Announced /\ Saying /\ said \in Seq(Sayings) /\ Len(said) \in Nat
      /\ threshold \in Thresholds \cup {Off}
  BY DEF FramesInv, FramesTypeOK
<1>2. n \in Nat /\ j \in 1 .. Len(said) /\ x \in Sayings /\ j - 1 \in 0 .. Len(said)
  BY <1>1
<1>3. x.body \in Replies /\ x.body \in Packets /\ x.form \in Forms
  BY <1>2, RoomIs DEF Sayings
<1>4. innerSaid[j] = Inner(x.body, x.form, threshold)
  <2>1. innerSaid[j] = Inner(x.body, x.form, At(j))
    BY <1>2 DEF innerSaid
  <2>2. At(j) = threshold
    <3>1. CASE j = 1
      <4>1. n = 0
        BY <1>2, <3>1
      <4>2. heard = <<>>
        BY <1>1, <4>1, FitAmongIs
      <4>3. threshold = Off
        BY <1>1, <4>2 DEF Announced
      <4>. QED BY <3>1, <4>3 DEF At
    <3>2. CASE j # 1
      BY <3>2 DEF At
    <3>. QED BY <3>1, <3>2
  <2>. QED BY <2>1, <2>2
<1>5. x.form # "empty"
  BY <1>3, <1>4, InnerFits
<1>6. /\ x.form = "short" => threshold # Off /\ Len(x.body) < threshold
      /\ x.form = "misstated" => threshold # Off /\ Len(x.body) >= threshold
  <2>1. CASE j = 1
    <3>1. said # <<>>
      BY <1>1, <1>2
    <3>2. x.form = "fit"
      BY <1>1, <2>1, <3>1 DEF Saying
    <3>. QED BY <3>2
  <2>2. CASE j # 1
    <3>1. j \in 2 .. Len(said)
      BY <1>2, <2>2
    <3>. QED BY <1>1, <3>1 DEF Saying
  <2>. QED BY <2>1, <2>2
<1>7. decodeBody(innerSaid[j], max) = IF x.form = "fit" THEN <<x.body>> ELSE <<>>
  <2>1. x.form \in Forms \ {"empty"}
    BY <1>3, <1>5
  <2> HIDE DEF x
  <2>2. decodeBody(Inner(x.body, x.form, threshold), max)
          = IF x.form = "fit" THEN <<x.body>> ELSE <<>>
    BY <1>1, <1>3, <1>6, <2>1, Decodes
  <2>. QED BY <1>4, <2>2
<1>8. f[j] = IF x.form = "fit" THEN Append(f[j - 1], x.body) ELSE f[j - 1]
  BY <1>1, <1>2, FitAmongIs
<1>9. f[j - 1] \in Seq(Bytes)
  BY <1>1, <1>2, FitAmongIs
<1> HIDE DEF x, f
<1>10. f[j - 1] \o <<>> = f[j - 1] /\ Append(f[j - 1], x.body) = f[j - 1] \o <<x.body>>
  <2> DEFINE u == f[j - 1]
             y == x.body
  <2>1. u \in Seq(Bytes) /\ y \in Bytes
    <3>1. MaxPacketSize \in Room(x.body)
      BY <1>3, RoomIs
    <3>. QED BY <1>3, <1>9, <3>1, PacketsFit
  <2> HIDE DEF u, y
  <2>2. u \o <<>> = u /\ Append(u, y) = u \o <<y>>
    BY <2>1
  <2>. QED BY <2>2 DEF u, y
<1>11. f[j] = f[j - 1] \o decodeBody(innerSaid[j], max)
  BY <1>7, <1>8, <1>10
<1>. QED BY <1>11 DEF f

\* The reactor hears all of the frames it has, and loses the place of none.
LEMMA ServeHears ==
  ASSUME FramesInv, NEW n \in 0 .. Len(said), HeardFirst(n), ~dropped,
         NEW b \in Bytes, NEW q \in Bytes, b \o q = pending \o toServer,
         Serve(b), toServer' = q, UNCHANGED <<threshold, said>>
  PROVE  Hearing'
<1> DEFINE N == Len(said)
           well == FitAmong(said)
           o == processPending(b)
           i == innerSaid
<1>1. said \in Seq(Sayings) /\ N \in Nat /\ heard = well[n]
      /\ (\A k \in 1 .. n : said[k].form # "empty")
  BY DEF FramesInv, FramesTypeOK, HeardFirst
<1>2. PICK rest : Ahead(rest, i, N, Limits, n, pending, toServer)
  BY DEF HeardFirst
<1>3. MaxPacketSize \in Limits
  BY DEF Limits
<1>4. Ahead(rest, i, N, Limits, n, b, q)
  <2> HIDE DEF i, N
  <2>. QED BY <1>2, AheadAs
<1>5. Heard(well, i, n, N)
  <2>1. \A j \in n .. N : well[j] \in Seq(Bytes)
    <3>1. \A j \in n .. N : j \in 0 .. N
      BY <1>1
    <3>. QED BY <1>1, <3>1, FitAmongIs
  <2>2. ASSUME NEW j \in n + 1 .. N, i[j] # <<>>
        PROVE  well[j] = well[j - 1] \o decodeBody(i[j], MaxPacketSize)
    BY <1>1, <1>3, <2>2, SaidDecodes
  <2> HIDE DEF well, i, N
  <2>. QED BY <2>1, <2>2 DEF Heard
<1>6. Reached(o, rest, i, N, Limits, n, well, q)
  <2> HIDE DEF well, i, N
  <2>. QED BY <1>3, <1>4, <1>5, processPendingReaches
<1>7. heard' = heard \o o.heard /\ pending' = o.left /\ dropped' = o.dropped
  BY Zenon DEF Serve
<1> HIDE DEF o
<1>8. PICK m \in n .. N :
        /\ \A j \in n + 1 .. m : i[j] # <<>>
        /\ well[m] = well[n] \o o.heard
        /\ IF o.dropped THEN m < N /\ i[m + 1] = <<>>
           ELSE Ahead(rest, i, N, Limits, m, o.left, q)
  BY <1>6 DEF Reached
<1>9. m \in 0 .. N /\ m \in Nat /\ n \in Nat
  BY <1>1
<1>10. \A j \in 1 .. N : i[j] = <<>> <=> said[j].form = "empty"
  <2>1. ASSUME NEW j \in 1 .. N PROVE i[j] = <<>> <=> said[j].form = "empty"
    <3>1. said[j].body \in Packets /\ said[j].form \in Forms
      <4>1. said[j] \in Sayings
        BY <1>1
      <4>. QED BY <4>1, RoomIs DEF Sayings
    <3>2. i[j] = Inner(said[j].body, said[j].form, At(j))
      BY DEF innerSaid
    <3>. QED BY <3>1, <3>2, InnerFits
  <2>. QED BY <2>1
<1>11. heard' = well[m]
  BY <1>1, <1>7, <1>8
<1>12. ASSUME NEW k \in 1 .. m PROVE said[k].form # "empty"
  <2>1. k \in 1 .. n \/ (k \in n + 1 .. m /\ k \in 1 .. N)
    BY <1>9
  <2>. QED BY <1>1, <1>8, <1>10, <2>1
<1>13. i' = i
  BY DEF innerSaid, At
<1>14. IF dropped' THEN m < N /\ said[m + 1].form = "empty"
       ELSE \E r : Ahead(r, i', N, Limits, m, pending', toServer')
  <2>1. CASE o.dropped
    <3>1. m + 1 \in 1 .. N
      BY <1>8, <1>9, <2>1
    <3>. QED BY <1>7, <1>8, <1>10, <2>1, <3>1
  <2>2. CASE ~o.dropped
    <3>1. Ahead(rest, i, N, Limits, m, o.left, q)
      BY <1>8, <2>2
    <3> HIDE DEF i
    <3>. QED BY <1>7, <1>13, <2>2, <3>1
  <2>. QED BY <2>1, <2>2
<1>15. said' = said /\ heard' = FitAmong(said')[m] /\ m \in 0 .. Len(said')
  BY <1>9, <1>11
<1>. QED BY <1>12, <1>14, <1>15 DEF Hearing, HeardFirst

\* The read loop hears the frame in front, or finds that it is none.
LEMMA ReadHears ==
  ASSUME FramesInv, NEW n \in 0 .. Len(said), HeardFirst(n), ReadPacket
  PROVE  Hearing'
<1> DEFINE N == Len(said)
           well == FitAmong(said)
           i == innerSaid
           frame == FrameIn(toServer, maxSize)
           k == n + 1
<1>1. /\ said \in Seq(Sayings) /\ N \in Nat /\ heard = well[n] /\ toServer \in Bytes /\ Saying
      /\ (\A j \in 1 .. n : said[j].form # "empty")
  BY DEF FramesInv, FramesTypeOK, HeardFirst
<1>2. /\ ~taken /\ ~dropped
      /\ \/ /\ frame.is = "invalid" /\ dropped' = TRUE /\ UNCHANGED <<toServer, heard>>
         \/ /\ frame.is = "whole" /\ toServer' = From(toServer, frame.size)
            /\ heard' = heard \o decodeBody(frame.body, maxSize) /\ UNCHANGED dropped
      /\ UNCHANGED <<serverState, clientState, pending>>
  BY Zenon DEF ReadPacket
<1>3. UNCHANGED <<threshold, said, pending>> /\ pending = <<>>
  BY <1>1, <1>2 DEF serverState, clientState, Saying
<1>4. PICK rest : Ahead(rest, i, N, Limits, n, <<>>, toServer)
  BY <1>2, <1>3 DEF HeardFirst
<1>5. maxSize \in Limits /\ maxSize \in Nat
  BY SizesAssumption DEF maxSize, Limits
<1>6. Ahead(rest, i, N, Limits, n, toServer, <<>>)
  <2>1. <<>> \in Bytes /\ toServer \o <<>> = <<>> \o toServer
    BY <1>1 DEF Bytes
  <2> HIDE DEF i, N
  <2>. QED BY <1>1, <1>4, <2>1, AheadAs
<1>7. \/ FrameIn(toServer, maxSize) = Partial
      \/ /\ k \in 1 .. N /\ i[k] = <<>> /\ FrameIn(toServer, maxSize) = Invalid
      \/ /\ k \in 1 .. N /\ i[k] # <<>> /\ i[k] \in Bytes
         /\ \E size \in 1 .. Len(toServer) :
              /\ FrameIn(toServer, maxSize) = Whole(size, i[k])
              /\ Ahead(rest, i, N, Limits, k, From(toServer, size), <<>>)
  <2> HIDE DEF i, N
  <2>. QED BY <1>5, <1>6, AheadIs
<1>8. \A j \in 1 .. N : i[j] = <<>> <=> said[j].form = "empty"
  <2>1. ASSUME NEW j \in 1 .. N PROVE i[j] = <<>> <=> said[j].form = "empty"
    <3>1. said[j].body \in Packets /\ said[j].form \in Forms
      <4>1. said[j] \in Sayings
        BY <1>1
      <4>. QED BY <4>1, RoomIs DEF Sayings
    <3>2. i[j] = Inner(said[j].body, said[j].form, At(j))
      BY DEF innerSaid
    <3>. QED BY <3>1, <3>2, InnerFits
  <2>. QED BY <2>1
<1>9. i' = i
  BY <1>3 DEF innerSaid, At
<1>10. CASE frame = Partial
  BY <1>2, <1>10 DEF Partial
<1>11. CASE k \in 1 .. N /\ i[k] = <<>> /\ frame = Invalid
  <2>1. frame.is = "invalid"
    BY <1>11 DEF Invalid
  <2>2. dropped' /\ UNCHANGED heard
    BY <1>2, <2>1
  <2>3. said[n + 1].form = "empty" /\ n < N
    <3>1. n < N
      BY <1>1, <1>11
    <3>. QED BY <1>8, <1>11, <3>1
  <2>. QED BY <1>1, <1>3, <2>2, <2>3 DEF Hearing, HeardFirst
<1>12. ASSUME k \in 1 .. N, i[k] # <<>>, i[k] \in Bytes, NEW size \in 1 .. Len(toServer),
              frame = Whole(size, i[k]),
              Ahead(rest, i, N, Limits, k, From(toServer, size), <<>>)
       PROVE  Hearing'
  <2>1. frame.is = "whole" /\ frame.size = size /\ frame.body = i[k]
    BY <1>12 DEF Whole
  <2> HIDE DEF frame
  <2>2. /\ toServer' = From(toServer, size) /\ heard' = heard \o decodeBody(i[k], maxSize)
        /\ UNCHANGED dropped
    BY <1>2, <2>1
  <2>3. well[k] = well[n] \o decodeBody(i[k], maxSize)
    <3>1. k \in n + 1 .. N /\ k - 1 = n
      BY <1>12
    <3> HIDE DEF k
    <3>2. well[k] = well[k - 1] \o decodeBody(i[k], maxSize)
      BY <1>1, <1>5, <1>12, <3>1, SaidDecodes
    <3>. QED BY <3>1, <3>2
  <2>4. heard' = well[k]
    BY <1>1, <2>2, <2>3
  <2>5. ASSUME NEW j \in 1 .. k PROVE said[j].form # "empty"
    <3>1. j \in 1 .. n \/ j = k
      OBVIOUS
    <3>. QED BY <1>1, <1>8, <1>12, <3>1
  <2> DEFINE q == From(toServer, size)
  <2>6. q \in Bytes
    <3>1. size \in 0 .. Len(toServer)
      OBVIOUS
    <3>. QED BY <1>1, <3>1, Splits
  <2>7. Ahead(rest, i, N, Limits, k, q, <<>>)
    BY <1>12
  <2> HIDE DEF q, k
  <2>8. <<>> \in Bytes /\ <<>> \o q = q \o <<>>
    BY <2>6 DEF Bytes
  <2>9. Ahead(rest, i, N, Limits, k, <<>>, q)
    <3> HIDE DEF i, N
    <3>. QED BY <2>6, <2>7, <2>8, AheadAs
  <2>10. \E r : Ahead(r, i', N, Limits, k, pending', toServer')
    <3>1. pending' = <<>> /\ toServer' = q
      BY <1>3, <2>2 DEF q
    <3> HIDE DEF i
    <3>. QED BY <1>9, <2>9, <3>1
  <2>11. k \in 0 .. Len(said') /\ said' = said
    BY <1>1, <1>3, <1>12
  <2>12. ~dropped' /\ heard' = FitAmong(said')[k]
    BY <1>2, <2>2, <2>4, <2>11
  <2>. QED BY <2>5, <2>10, <2>11, <2>12 DEF Hearing, HeardFirst
<1>. QED BY <1>7, <1>10, <1>11, <1>12

\* What the client says is behind all it has said.
LEMMA SayBehind ==
  ASSUME FramesInv, NEW n \in 0 .. Len(said), HeardFirst(n),
         NEW body \in Replies, NEW form \in Forms, Say(body, form)
  PROVE  Hearing'
<1> DEFINE N == Len(said)
           s == [body |-> body, form |-> form]
           x == Inner(body, form, told)
           f == Frame(x)
           i == innerSaid
           z == innerSaid'
<1>1. /\ said \in Seq(Sayings) /\ N \in Nat /\ heard = FitAmong(said)[n]
      /\ toServer \in Bytes /\ pending \in Bytes /\ Announced /\ Understood
      /\ (\A j \in 1 .. n : said[j].form # "empty")
  BY DEF FramesInv, FramesTypeOK, HeardFirst, Waiting
<1>2. /\ said' = Append(said, s) /\ (said # <<>> => settled)
      /\ UNCHANGED <<threshold, heard, pending, dropped>>
  BY DEF Say, serverState
<1>3. toServer' = toServer \o f
  BY RoomIs, InFormIs DEF Say
<1>4. s \in Sayings /\ s.body = body /\ s.form = form
  BY DEF Sayings
<1> HIDE DEF s
<1>5. /\ Len(said') = N + 1 /\ said'[N + 1] = s /\ said' \in Seq(Sayings)
      /\ \A j \in 1 .. N : said'[j] = said[j]
  BY <1>1, <1>2, <1>4
<1>6. heard' = FitAmong(said')[n]
  BY <1>1, <1>2, <1>4, FitAmongStays
<1>7. ASSUME NEW j \in 1 .. n PROVE said'[j].form # "empty"
  <2>1. j \in 1 .. N
    BY <1>1
  <2>. QED BY <1>1, <1>5, <2>1
<1>8. n \in 0 .. Len(said') /\ n \in Nat
  BY <1>1, <1>5
<1>9. CASE dropped
  <2>1. n < N /\ said[n + 1].form = "empty" /\ n + 1 \in 1 .. N
    BY <1>1, <1>9 DEF HeardFirst
  <2>2. n < Len(said') /\ said'[n + 1].form = "empty"
    BY <1>1, <1>5, <2>1
  <2>3. dropped'
    BY <1>2, <1>9
  <2>. QED BY <1>6, <1>7, <1>8, <2>2, <2>3 DEF Hearing, HeardFirst
<1>10. CASE ~dropped
  <2>1. PICK rest : Ahead(rest, i, N, Limits, n, pending, toServer)
    BY <1>10 DEF HeardFirst
  <2>2. Fits(x, Limits) /\ f \in Bytes
    BY InnerFits, SentBytes, RoomIs
  <2>3. told = IF N + 1 = 1 THEN Off ELSE threshold
    <3>1. CASE N = 0
      <4>1. heard = <<>>
        <5>1. n = 0
          BY <3>1
        <5>. QED BY <1>1, <5>1, FitAmongIs
      <4>2. threshold = Off
        BY <1>1, <4>1 DEF Announced
      <4>3. told = Off
        BY <1>1, <4>2 DEF Understood
      <4>. QED BY <3>1, <4>3
    <3>2. CASE N # 0
      <4>1. said # <<>>
        BY <3>2
      <4>2. told = threshold
        BY <1>1, <1>2, <4>1 DEF Understood
      <4>3. N + 1 # 1
        BY <1>1, <3>2
      <4>. QED BY <4>2, <4>3
    <3>. QED BY <3>1, <3>2
  <2>4. z[N + 1] = x /\ \A j \in 1 .. N : z[j] = i[j]
    <3>1. \A j \in 1 .. N + 1 :
            z[j] = Inner(said'[j].body, said'[j].form, IF j = 1 THEN Off ELSE threshold)
      BY <1>2, <1>5 DEF innerSaid, At
    <3>2. \A j \in 1 .. N :
            i[j] = Inner(said[j].body, said[j].form, IF j = 1 THEN Off ELSE threshold)
      BY DEF innerSaid, At
    <3>3. N + 1 \in 1 .. N + 1 /\ \A j \in 1 .. N : j \in 1 .. N + 1
      BY <1>1
    <3> HIDE DEF z, i, N
    <3>4. z[N + 1] = Inner(body, form, told)
      BY <1>4, <1>5, <2>3, <3>1, <3>3
    <3>5. \A j \in 1 .. N : z[j] = i[j]
      BY <1>5, <3>1, <3>2, <3>3
    <3>. QED BY <3>4, <3>5
  <2> HIDE DEF x, z, i
  <2>5. Another(rest, i, N, Limits, x, z)
    <3>1. Laid(rest, i, N, Limits)
      BY <2>1 DEF Ahead
    <3>. QED BY <2>2, <2>4, <3>1 DEF Another
  <2>6. PICK r : Ahead(r, z, N + 1, Limits, n, pending, toServer \o f)
    <3> HIDE DEF N
    <3>. QED BY <2>1, <2>5, AheadBehind
  <2>7. Ahead(r, z, Len(said'), Limits, n, pending', toServer')
    BY <1>2, <1>3, <1>5, <2>6
  <2>8. ~dropped'
    BY <1>2, <1>10
  <2>. QED BY <1>6, <1>7, <1>8, <2>7, <2>8 DEF Hearing, HeardFirst, z
<1>. QED BY <1>9, <1>10

\* The server keeps its place among what the client has said.
LEMMA HearingStays ==
  ASSUME FramesInv, [Next]_vars
  PROVE  Hearing'
<1>1. /\ FramesTypeOK /\ Announced /\ Understood /\ Saying /\ Hearing
      /\ said \in Seq(Sayings) /\ toServer \in Bytes /\ pending \in Bytes
  BY DEF FramesInv, FramesTypeOK, Waiting
<1>2. PICK n \in 0 .. Len(said) : HeardFirst(n)
  BY <1>1 DEF Hearing
<1>3. ASSUME UNCHANGED <<heard, said, dropped, pending, toServer>>, innerSaid' = innerSaid
      PROVE  Hearing'
  BY <1>2, <1>3 DEF Hearing, HeardFirst
<1>4. ASSUME UNCHANGED <<threshold, said>> PROVE innerSaid' = innerSaid
  BY <1>4 DEF innerSaid, At
<1>5. ASSUME NEW t \in Thresholds, EnableCompression(t) PROVE Hearing'
  <2>1. phase = "login" /\ UNCHANGED <<heard, said, dropped, pending, toServer>>
    BY <1>5 DEF EnableCompression, clientState
  <2>2. ~(Len(said) > 1)
    BY <1>1, <2>1 DEF Understood, Saying
  <2>3. \A k \in 1 .. Len(said) : k = 1
    BY <1>1, <2>2
  <2>4. innerSaid' = innerSaid
    <3>1. innerSaid = [k \in 1 .. Len(said) |-> Inner(said[k].body, said[k].form, Off)]
      BY <2>3 DEF innerSaid, At
    <3>2. innerSaid' = [k \in 1 .. Len(said) |-> Inner(said[k].body, said[k].form, Off)]
      BY <2>1, <2>3 DEF innerSaid, At
    <3>. QED BY <3>1, <3>2
  <2>. QED BY <1>3, <2>1, <2>4
<1>6. CASE Writing
  <2>1. UNCHANGED <<threshold, said, heard, dropped, pending, toServer>>
    BY <1>1, <1>6, WritingSends DEF clientState
  <2>. QED BY <1>3, <1>4, <2>1
<1>7. ASSUME NEW body \in Replies, NEW form \in Forms, Say(body, form) PROVE Hearing'
  BY <1>2, <1>7, SayBehind
<1>8. CASE Get \/ EnterPlay \/ UNCHANGED vars
  <2>1. UNCHANGED <<threshold, said, heard, dropped, pending, toServer>>
    BY <1>8 DEF Get, EnterPlay, vars, serverState, clientState
  <2>. QED BY <1>3, <1>4, <2>1
<1>9. CASE ReadPacket
  BY <1>2, <1>9, ReadHears
<1>10. ASSUME NEW m \in Nat, m <= Len(toServer)
       PROVE  /\ SubSeq(toServer, 1, m) \in Bytes /\ From(toServer, m) \in Bytes
              /\ SubSeq(toServer, 1, m) \o From(toServer, m) = toServer
  <2>1. m \in 0 .. Len(toServer)
    BY <1>1, <1>10, BytesLength
  <2>. QED BY <1>1, <2>1, Splits
<1>11. ASSUME NEW m \in 0 .. ReadSize, register(m) PROVE Hearing'
  <2> DEFINE b == SubSeq(toServer, 1, m)
             q == From(toServer, m)
  <2>1. /\ ~taken /\ ~dropped /\ m <= Len(toServer) /\ toServer' = q /\ Serve(b)
        /\ UNCHANGED <<threshold, said>> /\ m \in Nat
    BY <1>11 DEF register, clientState
  <2>2. b \in Bytes /\ q \in Bytes /\ b \o q = toServer
    BY <1>10, <2>1
  <2>3. pending = <<>>
    BY <1>1, <2>1 DEF Saying
  <2> HIDE DEF b, q
  <2>4. b \o q = pending \o toServer
    BY <1>1, <2>2, <2>3 DEF Bytes
  <2>. QED BY <1>2, <2>1, <2>2, <2>4, ServeHears
<1>12. ASSUME NEW m \in 1 .. ReadSize, readReady(m) PROVE Hearing'
  <2> DEFINE h == SubSeq(toServer, 1, m)
             b == pending \o h
             q == From(toServer, m)
  <2>1. /\ ~dropped /\ m <= Len(toServer) /\ toServer' = q /\ Serve(b)
        /\ UNCHANGED <<threshold, said>> /\ m \in Nat
    BY <1>12 DEF readReady, clientState, serverState
  <2>2. h \in Bytes /\ q \in Bytes /\ h \o q = toServer
    BY <1>10, <2>1
  <2> HIDE DEF h, q
  <2>3. b \in Bytes /\ b \o q = pending \o toServer
    <3>1. b \in Bytes
      BY <1>1, <2>2, InFront
    <3>2. (pending \o h) \o q = pending \o (h \o q)
      <4>1. Associates(pending, h, q)
        BY <1>1, <2>2, Together
      <4>. QED BY <4>1, Zenon DEF Associates
    <3>. QED BY <2>2, <3>1, <3>2
  <2> HIDE DEF b
  <2>. QED BY <1>2, <2>1, <2>2, <2>3, ServeHears
<1>. QED BY <1>5, <1>6, <1>7, <1>8, <1>9, <1>11, <1>12, Steps DEF Elsewise

-------------------------------------------------------------------------------
(* What is heard, and what is got                                             *)

\* Each end's place among what the other wrote is kept by every step.
LEMMA FramesInvStays == Spec => []FramesInv
<1>1. Init /\ FramesTypeOK => FramesInv
  <2> SUFFICES ASSUME Init, FramesTypeOK PROVE FramesInv
    OBVIOUS
  <2> DEFINE none == [k \in {0} |-> <<>>]
  <2>1. <<>> \in Bytes /\ <<>> \o <<>> = <<>> /\ none \in [0 .. 0 -> Bytes] /\ none[0] = <<>>
    BY DEF Bytes
  <2> HIDE DEF none
  <2>2. \A inner, limits : Ahead(none, inner, 0, limits, 0, <<>>, <<>>)
    BY <2>1 DEF Ahead, Laid
  <2>3. Announced /\ Understood /\ Saying
    BY DEF Init, Announced, Understood, Saying
  <2>4. Coming
    <3>1. Len(wrote) = 0 /\ Len(got) = 0 /\ toClient = <<>>
      BY DEF Init
    <3>. QED BY <2>2, <3>1 DEF Coming
  <2>5. Hearing
    <3>1. Len(said) = 0 /\ said = <<>> /\ toServer = <<>> /\ pending = <<>> /\ ~dropped /\ heard = <<>>
      BY DEF Init
    <3>2. said \in Seq(Sayings)
      BY DEF FramesTypeOK
    <3>3. heard = FitAmong(said)[0]
      BY <3>1, <3>2, FitAmongIs
    <3>4. \E rest : Ahead(rest, innerSaid, Len(said), Limits, 0, pending, toServer)
      BY <2>2, <3>1
    <3>. QED BY <3>1, <3>3, <3>4 DEF Hearing, HeardFirst
  <2>. QED BY <2>3, <2>4, <2>5 DEF FramesInv
<1>2. FramesInv /\ [Next]_vars /\ FramesTypeOK' => FramesInv'
  BY AnnouncedStays, UnderstoodStays, ComingStays, SayingStays, HearingStays DEF FramesInv
<1>. QED BY <1>1, <1>2, FramesTyped, PTL DEF Spec

\* The server gives a connection up for nothing but a frame without a valid
\* length: a body it cannot inflate, and a frame still arriving, are no cause.
THEOREM GivenUpForCause == Spec => []DroppedForCause
<1>1. FramesInv => DroppedForCause
  <2> SUFFICES ASSUME FramesInv, dropped PROVE \E k \in DOMAIN said : said[k].form = "empty"
    BY DEF DroppedForCause
  <2>1. PICK n \in 0 .. Len(said) : n < Len(said) /\ said[n + 1].form = "empty"
    BY DEF FramesInv, Hearing, HeardFirst
  <2>2. n + 1 \in DOMAIN said
    <3>1. said \in Seq(Sayings)
      BY DEF FramesInv, FramesTypeOK
    <3>. QED BY <2>1, <3>1
  <2>. QED BY <2>1, <2>2
<1>. QED BY <1>1, FramesInvStays, PTL

\* The first of some numbers.
LEMMA FirstOf ==
  ASSUME NEW s \in SUBSET Nat, s # {}
  PROVE  Min(s) \in s /\ \A k \in s : Min(s) <= k
<1>1. IsWellFoundedOn(Less, Nat)
  BY NatLessThanWellFounded DEF Less
<1>2. PICK m \in s : \A k \in s : ~(<<k, m>> \in Less)
  BY <1>1, WFMin
<1>3. ASSUME NEW k \in s PROVE m <= k
  <2>1. k \in Nat /\ m \in Nat
    OBVIOUS
  <2>2. ~(k < m)
    BY <1>2, <2>1, LessIs
  <2>. QED BY <2>1, <2>2
<1>4. \E x \in s : \A y \in s : x <= y
  BY <1>3
<1>. QED BY <1>4 DEF Min

\* What each end has read is what the other wrote, as it was meant, in order
\* and without a gap; and all of it, once nothing is on its way.
THEOREM MeantBothWays == Spec => []BothWaysAsMeant
<1>1. FramesInv => HeardAsSaid
  <2> SUFFICES ASSUME FramesInv PROVE HeardAsSaid
    OBVIOUS
  <2> DEFINE N == Len(said)
             well == FitAmong(said)
             ends == {k \in DOMAIN said : said[k].form = "empty"}
             until == IF ends = {} THEN N ELSE Min(ends) - 1
  <2>1. said \in Seq(Sayings) /\ N \in Nat /\ DOMAIN said = 1 .. N
    BY DEF FramesInv, FramesTypeOK
  <2>2. PICK n \in 0 .. N : HeardFirst(n)
    BY DEF FramesInv, Hearing
  <2>3. heard = well[n] /\ (\A k \in 1 .. n : said[k].form # "empty")
    BY <2>2 DEF HeardFirst
  <2>4. SaidWell = well[until]
    BY Zenon DEF SaidWell
  <2>5. ends \subseteq 1 .. N /\ \A k \in ends : said[k].form = "empty"
    BY <2>1
  <2>6. \A k \in ends : n < k
    <3>1. ASSUME NEW k \in ends PROVE n < k
      <4>1. k \in 1 .. N /\ ~(k \in 1 .. n)
        BY <2>3, <2>5, <3>1
      <4>. QED BY <2>1, <4>1
    <3>. QED BY <3>1
  <2>7. toServer = <<>> /\ pending = <<>> /\ ~dropped => n = N
    <3> SUFFICES ASSUME toServer = <<>>, pending = <<>>, ~dropped PROVE n = N
      OBVIOUS
    <3>1. PICK rest : Ahead(rest, innerSaid, N, Limits, n, pending, toServer)
      BY <2>2 DEF HeardFirst
    <3> HIDE DEF N
    <3>. QED BY <3>1, AheadEnds
  <2> HIDE DEF ends
  <2>8. until \in n .. N
    <3>1. CASE ends = {}
      BY <2>1, <3>1
    <3>2. CASE ends # {}
      <4>1. ends \in SUBSET Nat
        BY <2>1, <2>5
      <4>2. Min(ends) \in ends
        BY <3>2, <4>1, FirstOf
      <4>3. Min(ends) \in 1 .. N /\ n < Min(ends)
        BY <2>5, <2>6, <4>2
      <4>. QED BY <2>1, <3>2, <4>3
    <3>. QED BY <3>1, <3>2
  <2> HIDE DEF until
  <2>9. IsPrefix(well[n], well[until])
    BY <2>1, <2>8, FitAmongPrefix
  <2>10. n = N => until = n
    <3> HIDE DEF N
    <3>. QED BY <2>1, <2>8
  <2> HIDE DEF well, N
  <2>11. IsPrefix(heard, SaidWell)
    BY <2>3, <2>4, <2>9
  <2>12. toServer = <<>> /\ pending = <<>> /\ ~dropped => heard = SaidWell
    BY <2>3, <2>4, <2>7, <2>10
  <2>. QED BY <2>11, <2>12 DEF HeardAsSaid
<1>2. FramesInv => GotAsWritten
  <2> SUFFICES ASSUME FramesInv PROVE GotAsWritten
    OBVIOUS
  <2>1. /\ got \in Seq(Bytes) /\ wrote \in Seq(Bytes) /\ Len(got) <= Len(wrote)
        /\ \A k \in 1 .. Len(got) : got[k] = wrote[k]
    BY DEF FramesInv, FramesTypeOK, Understood
  <2>2. IsPrefix(got, wrote)
    BY <2>1, PrefixOf
  <2>3. toClient = <<>> => got = wrote
    <3> SUFFICES ASSUME toClient = <<>> PROVE got = wrote
      OBVIOUS
    <3>1. PICK rest : Ahead(rest, innerSent, Len(wrote), {MaxPacketSize}, Len(got), toClient, <<>>)
      BY DEF FramesInv, Coming
    <3>2. Len(got) = Len(wrote)
      BY <3>1, AheadEnds
    <3>. QED BY <2>1, <3>2, SeqEqual
  <2>. QED BY <2>2, <2>3 DEF GotAsWritten
<1>. QED BY <1>1, <1>2, FramesInvStays, PTL DEF BothWaysAsMeant

===============================================================================
