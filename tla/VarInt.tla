-------------------------------- MODULE VarInt --------------------------------
(* The var int of src/streams/minecraft.go: an int32 in groups of seven bits, *)
(* lowest first, a byte to a group, with the bit above the group set on every *)
(* byte but the last. The widths are parameters: the code's are 7 and 32.     *)
EXTENDS Integers, Sequences

CONSTANTS
  GroupBits,   \* bits of the value in a byte
  Width        \* bits of the value

ASSUME WidthsAssumption == GroupBits \in Nat \ {0} /\ Width \in Nat \ {0}

Continue == 2 ^ GroupBits
Range32 == 2 ^ Width

ByteValues == 0 .. (2 * Continue - 1)
Int32 == (-(Range32 \div 2)) .. ((Range32 \div 2) - 1)

\* The conversions uint32(value) and int32(value).
ToUnsigned(value) == value % Range32
ToSigned(u) ==
  LET r == u % Range32 IN IF r < Range32 \div 2 THEN r ELSE r - Range32

\* Mutant: the byte with the last full group in it is sent as if it were the end.
AppendVarIntShort(dst, value) ==
  LET groups[u \in 0 .. Range32 - 1] ==
        IF u <= Continue THEN <<u % Continue>>
        ELSE <<Continue + (u % Continue)>> \o groups[u \div Continue]
  IN  dst \o groups[ToUnsigned(value)]

(* AppendVarInt, and WriteVarInt onto a stream.                               *)
AppendVarInt(dst, value) ==
  LET groups[u \in 0 .. Range32 - 1] ==
        IF u < Continue THEN <<u>>
        ELSE <<Continue + (u % Continue)>> \o groups[u \div Continue]
  IN  dst \o groups[ToUnsigned(value)]

\* What a call returns: err is "none", "EOF" or "VarInt too big".
Result(value, size, err) == [value |-> value, size |-> size, err |-> err]

\* Mutant: one byte more is taken than the width has room for.
readVarIntLong(b) ==
  LET value[size \in 0 .. Len(b)] ==
        IF size = 0 THEN 0
        ELSE (value[size - 1] + (b[size] % Continue) * 2 ^ ((size - 1) * GroupBits)) % Range32
      loop[size \in 0 .. Len(b)] ==
        IF size * GroupBits >= Width + GroupBits THEN Result(0, size, "VarInt too big")
        ELSE IF size = Len(b) THEN Result(0, size, "EOF")
        ELSE IF b[size + 1] < Continue THEN Result(ToSigned(value[size + 1]), size + 1, "none")
        ELSE loop[size + 1]
  IN  loop[0]

(* readVarInt off a reader that holds b: position is size * GroupBits, value  *)
(* what the first size bytes come to, and what a group is shifted past the    *)
(* width is gone. ReadVarIntFrom is it on a byte slice; on a connection,      *)
(* "EOF" is where it waits for the next byte.                                 *)
readVarInt(b) ==
  LET value[size \in 0 .. Len(b)] ==
        IF size = 0 THEN 0
        ELSE (value[size - 1] + (b[size] % Continue) * 2 ^ ((size - 1) * GroupBits)) % Range32
      loop[size \in 0 .. Len(b)] ==
        IF size * GroupBits >= Width THEN Result(0, size, "VarInt too big")
        ELSE IF size = Len(b) THEN Result(0, size, "EOF")
        ELSE IF b[size + 1] < Continue THEN Result(ToSigned(value[size + 1]), size + 1, "none")
        ELSE loop[size + 1]
  IN  loop[0]

-------------------------------------------------------------------------------
\* The bytes a var int can take: as many groups as the width needs.
MaxSize == (Width + GroupBits - 1) \div GroupBits

(* Every value an int32 has, negative ones with all their groups too, is read *)
(* back as itself and takes exactly its own bytes in front of behind.         *)
ReadsBack(behind) ==
  \A value \in Int32 :
    LET bytes == AppendVarInt(<<>>, value)
    IN  readVarInt(bytes \o behind) = Result(value, Len(bytes), "none")

\* The groups of the first k bytes, added up where they belong.
Sums(b) ==
  LET sum[k \in 0 .. Len(b)] ==
        IF k = 0 THEN 0
        ELSE sum[k - 1] + (b[k] % Continue) * 2 ^ ((k - 1) * GroupBits)
  IN  sum

(* A string of bytes, as another program may write it, reads as the groups up *)
(* to the first byte that ends them, cut to the width, if one does so within  *)
(* the bytes the width needs; else as too big if they are there, and as still *)
(* arriving only if they are not.                                             *)
ReadsAsSummed(b) ==
  LET ends == {k \in DOMAIN b : b[k] < Continue /\ k <= MaxSize}
      size == CHOOSE k \in ends : \A j \in ends : k <= j
      last == readVarInt(b)
  IN  IF ends # {} THEN last = Result(ToSigned(Sums(b)[size]), size, "none")
      ELSE IF Len(b) >= MaxSize THEN last.err = "VarInt too big"
      ELSE last = Result(0, Len(b), "EOF")
===============================================================================
