----------------------------- MODULE VarIntProofs -----------------------------
(* What VarInt promises for groups and values of every width: what is written *)
(* reads back as itself, and any bytes at all as their groups add up.         *)
EXTENDS VarInt, FiniteSetTheorems, SequenceTheorems, WellFoundedInduction, TLAPS

-------------------------------------------------------------------------------
(* Induction and recursion                                                    *)

Less == OpToRel(<, Nat)

\* What Less relates.
LEMMA LessIs == \A x, y : <<x, y>> \in Less <=> x \in Nat /\ y \in Nat /\ x < y
  BY DEF Less, OpToRel

\* Numbers among which is zero and, with each, the next, are all there are.
LEMMA SetInduction ==
  ASSUME NEW T, T \subseteq Nat, 0 \in T, \A n \in T : n + 1 \in T
  PROVE  T = Nat
<1> DEFINE U == Nat \ T
<1>1. SUFFICES ASSUME U # {}
               PROVE  FALSE
  OBVIOUS
<1>2. IsWellFoundedOn(Less, Nat)
  BY NatLessThanWellFounded DEF Less
<1>3. PICK x \in U : \A y \in U : ~(<<y, x>> \in Less)
  <2>1. U \subseteq Nat
    OBVIOUS
  <2> HIDE DEF U
  <2>. QED BY <1>1, <1>2, <2>1, WFMin
<1>4. x \in Nat /\ x # 0 /\ x - 1 \in Nat /\ (x - 1) + 1 = x /\ x - 1 < x
  OBVIOUS
<1>5. x - 1 \in T
  BY <1>3, <1>4, LessIs
<1>6. (x - 1) + 1 \in T
  BY <1>5
<1>. QED BY <1>4, <1>6

(* A function on D that, but where it stops, calls itself at a place of a     *)
(* lower rank, and makes a member of S of a member of S.                      *)
Calls(D, S, m, rank, stops, out, from, step) ==
  /\ m \in Nat /\ rank \in [D -> 0 .. m] /\ stops \subseteq D
  /\ out \in [stops -> S] /\ from \in [D \ stops -> D] /\ step \in [D \ stops -> [S -> S]]
  /\ \A i \in D \ stops : rank[from[i]] < rank[i]
Solves(g, D, S, stops, out, from, step) ==
  /\ g \in [D -> S]
  /\ \A i \in D : g[i] = IF i \in stops THEN out[i] ELSE step[i][g[from[i]]]

\* There is such a function.
LEMMA Recursion ==
  \A D, S, m, rank, stops, out, from, step :
    Calls(D, S, m, rank, stops, out, from, step) =>
      \E g : Solves(g, D, S, stops, out, from, step)
<1> SUFFICES ASSUME NEW D, NEW S, NEW m, NEW rank, NEW B, NEW out, NEW from, NEW step,
                    Calls(D, S, m, rank, B, out, from, step)
             PROVE  \E g : Solves(g, D, S, B, out, from, step)
  BY Zenon
<1> USE DEF Calls, Solves
<1> DEFINE Below(r) == {i \in D : rank[i] < r}
           Value(g, i) == IF i \in B THEN out[i] ELSE step[i][g[from[i]]]
           Upto(r, g) == g \in [Below(r) -> S] /\ \A i \in Below(r) : g[i] = Value(g, i)
           T == {r \in Nat : \E g : Upto(r, g)}
<1>1. 0 \in T
  <2>1. Below(0) = {}
    OBVIOUS
  <2>2. Upto(0, [i \in {} |-> 0])
    BY <2>1
  <2>. QED BY <2>2
<1>2. ASSUME NEW r \in T PROVE r + 1 \in T
  <2>1. r \in Nat /\ r + 1 \in Nat
    OBVIOUS
  <2>2. PICK g : Upto(r, g)
    OBVIOUS
  <2> DEFINE h == [i \in Below(r + 1) |-> Value(g, i)]
  <2>3. ASSUME NEW i \in Below(r + 1), i \notin B
        PROVE  from[i] \in Below(r) /\ from[i] \in Below(r + 1) /\ g[from[i]] \in S
    <3>1. i \in D /\ from[i] \in D /\ rank[from[i]] \in Nat /\ rank[i] \in Nat
          /\ rank[from[i]] < rank[i] /\ rank[i] < r + 1
      BY <2>3
    <3>2. from[i] \in Below(r)
      BY <2>1, <3>1
    <3>3. from[i] \in Below(r + 1)
      BY <2>1, <3>1
    <3>. QED BY <2>2, <3>2, <3>3
  <2>4. ASSUME NEW i \in Below(r) PROVE i \in Below(r + 1) /\ h[i] = g[i]
    <3>1. i \in Below(r + 1)
      BY <2>1
    <3>. QED BY <2>2, <3>1
  <2>5. ASSUME NEW i \in Below(r + 1) PROVE h[i] \in S /\ h[i] = Value(h, i)
    <3>1. CASE i \in B
      BY <3>1
    <3>2. CASE i \notin B
      <4>1. from[i] \in Below(r) /\ g[from[i]] \in S
        BY <2>3, <3>2
      <4>2. h[from[i]] = g[from[i]]
        BY <2>4, <4>1
      <4>3. step[i] \in [S -> S] /\ h[i] = step[i][g[from[i]]]
        BY <3>2
      <4>. QED BY <3>2, <4>1, <4>2, <4>3
    <3>. QED BY <3>1, <3>2
  <2>6. Upto(r + 1, h)
    <3>1. h \in [Below(r + 1) -> S]
      BY <2>5
    <3>. QED BY <2>5, <3>1
  <2>. QED BY <2>1, <2>6
<1>3. T = Nat
  <2>1. T \subseteq Nat
    OBVIOUS
  <2> HIDE DEF T
  <2>. QED BY <1>1, <1>2, <2>1, SetInduction
<1>4. PICK g : Upto(m + 1, g)
  <2>1. m + 1 \in T
    <3> HIDE DEF T
    <3>. QED BY <1>3
  <2>. QED BY <2>1
<1>5. Below(m + 1) = D
  OBVIOUS
<1>. QED BY <1>4, <1>5

-------------------------------------------------------------------------------
(* Powers of two                                                              *)

\* The powers of two are the numbers of subsets.
LEMMA Subsets == \A n \in Nat : IsFiniteSet(SUBSET (1 .. n)) /\ Cardinality(SUBSET (1 .. n)) = 2 ^ n
<1>1. SUFFICES ASSUME NEW n \in Nat
               PROVE  IsFiniteSet(SUBSET (1 .. n)) /\ Cardinality(SUBSET (1 .. n)) = 2 ^ n
  OBVIOUS
<1>2. IsFiniteSet(1 .. n) /\ Cardinality(1 .. n) = n
  BY FS_Interval
<1>3. Cardinality(SUBSET (1 .. n)) = 2 ^ Cardinality(1 .. n)
  BY <1>2, FS_SUBSET
<1>. QED BY <1>2, <1>3, FS_SUBSET

\* One bit more is twice as many.
LEMMA NextPower ==
  ASSUME NEW n \in Nat
  PROVE  2 ^ n \in Nat /\ 2 ^ (n + 1) = 2 ^ n + 2 ^ n
<1> DEFINE I == 1 .. n
           J == 1 .. n + 1
           A == SUBSET I
           B == {s \in SUBSET J : n + 1 \in s}
           f == [s \in A |-> s \cup {n + 1}]
<1>1. IsFiniteSet(A) /\ Cardinality(A) = 2 ^ n /\ IsFiniteSet(SUBSET J)
      /\ Cardinality(SUBSET J) = 2 ^ (n + 1)
  BY Subsets
<1>2. n + 1 \notin I /\ J = I \cup {n + 1}
  OBVIOUS
<1>3. f \in Bijection(A, B)
  <2>1. f \in [A -> B]
    BY <1>2
  <2>2. ASSUME NEW s \in A, NEW t \in A, f[s] = f[t] PROVE s = t
    <3>1. s \cup {n + 1} = t \cup {n + 1}
      BY <2>2
    <3>2. n + 1 \notin s /\ n + 1 \notin t
      BY <1>2
    <3>. QED BY <3>1, <3>2
  <2>3. ASSUME NEW b \in B PROVE \E s \in A : f[s] = b
    <3>1. b \ {n + 1} \in A /\ (b \ {n + 1}) \cup {n + 1} = b
      BY <1>2
    <3>. QED BY <3>1
  <2> HIDE DEF f, A, B
  <2>. QED BY <2>1, <2>2, <2>3 DEF Bijection, Injection, Surjection, IsInjective
<1>4. IsFiniteSet(B) /\ Cardinality(B) = Cardinality(A)
  <2> HIDE DEF f, A, B
  <2>1. ExistsBijection(A, B)
    BY <1>3 DEF ExistsBijection
  <2>. QED BY <1>1, <2>1, FS_Bijection
<1>5. A \cup B = SUBSET J /\ A \cap B = {}
  BY <1>2
<1>6. Cardinality(A) \in Nat
  <2> HIDE DEF A
  <2>. QED BY <1>1, FS_CardinalityType
<1>7. Cardinality(A \cup B) = Cardinality(A) + Cardinality(B) - Cardinality(A \cap B)
  <2> HIDE DEF A, B
  <2>. QED BY <1>1, <1>4, FS_Union
<1>8. Cardinality(A \cap B) = 0
  BY <1>5, FS_EmptySet
<1>9. Cardinality(SUBSET J) = Cardinality(A) + Cardinality(A)
  <2> HIDE DEF A, B, J
  <2>1. Cardinality(A \cup B) = Cardinality(A) + Cardinality(A)
    BY <1>4, <1>6, <1>7, <1>8
  <2>2. SUBSET J = A \cup B
    BY <1>5
  <2>. QED BY <2>1, <2>2
<1> HIDE DEF A, J
<1>. QED BY <1>1, <1>6, <1>9
\* More bits are more values, at least twice as many.
LEMMA PowersAdd ==
  ASSUME NEW a \in Nat, NEW b \in Nat
  PROVE  2 ^ a \in Nat \ {0} /\ 2 ^ (a + b) = 2 ^ a * 2 ^ b /\ (b > 0 => 2 * 2 ^ a <= 2 ^ (a + b))
<1> DEFINE P(n) == 2 ^ n
           T == {n \in Nat : P(n) \in Nat \ {0}}
           U == {n \in Nat : P(a + n) = P(a) * P(n)}
           V == {n \in Nat : 2 * P(a) <= P(a + (n + 1))}
<1>1. P(0) = 1
  OBVIOUS
<1>2. \A n \in Nat : P(n) \in Nat /\ P(n + 1) = P(n) + P(n)
  BY NextPower
<1> HIDE DEF P
<1>3. T = Nat
  <2>1. 0 \in T
    BY <1>1
  <2>2. ASSUME NEW n \in T PROVE n + 1 \in T
    <3>1. n \in Nat /\ n + 1 \in Nat /\ P(n) \in Nat \ {0}
      OBVIOUS
    <3>2. P(n + 1) = P(n) + P(n)
      BY <1>2, <3>1
    <3>. QED BY <3>1, <3>2
  <2>3. T \subseteq Nat
    OBVIOUS
  <2> HIDE DEF T
  <2>. QED BY <2>1, <2>2, <2>3, SetInduction
<1>4. \A n \in Nat : P(n) \in Nat \ {0}
  BY <1>3
<1>5. U = Nat
  <2>1. 0 \in U
    BY <1>1, <1>4
  <2>2. ASSUME NEW n \in U PROVE n + 1 \in U
    <3>1. n \in Nat /\ n + 1 \in Nat /\ P(a + n) = P(a) * P(n) /\ a + n \in Nat
          /\ a + (n + 1) = (a + n) + 1
      OBVIOUS
    <3>2. P((a + n) + 1) = P(a + n) + P(a + n) /\ P(n + 1) = P(n) + P(n)
      BY <1>2, <3>1
    <3>3. P(a) * (P(n) + P(n)) = P(a) * P(n) + P(a) * P(n)
      <4>1. P(a) \in Nat /\ P(n) \in Nat
        BY <1>2, <3>1
      <4>. QED BY <4>1
    <3>4. P(a + (n + 1)) = P(a) * P(n + 1)
      BY <3>1, <3>2, <3>3
    <3>. QED BY <3>1, <3>4
  <2>3. U \subseteq Nat
    OBVIOUS
  <2> HIDE DEF U
  <2>. QED BY <2>1, <2>2, <2>3, SetInduction
<1>6. V = Nat
  <2>1. 0 \in V
    <3>1. P(a + 1) = P(a) + P(a) /\ P(a) \in Nat
      BY <1>2
    <3>. QED BY <3>1
  <2>2. ASSUME NEW n \in V PROVE n + 1 \in V
    <3>1. n \in Nat /\ n + 1 \in Nat /\ 2 * P(a) <= P(a + (n + 1)) /\ a + (n + 1) \in Nat
          /\ a + ((n + 1) + 1) = (a + (n + 1)) + 1
      OBVIOUS
    <3>2. P((a + (n + 1)) + 1) = P(a + (n + 1)) + P(a + (n + 1)) /\ P(a + (n + 1)) \in Nat
          /\ P(a) \in Nat
      BY <1>2, <3>1
    <3>. QED BY <3>1, <3>2
  <2>3. V \subseteq Nat
    OBVIOUS
  <2> HIDE DEF V
  <2>. QED BY <2>1, <2>2, <2>3, SetInduction
<1>7. b > 0 => 2 * P(a) <= P(a + b)
  <2>1. SUFFICES ASSUME b > 0 PROVE 2 * P(a) <= P(a + b)
    OBVIOUS
  <2>2. b - 1 \in Nat /\ (b - 1) + 1 = b
    BY <2>1
  <2>3. b - 1 \in V
    <3> HIDE DEF V
    <3>. QED BY <1>6, <2>2
  <2>. QED BY <2>2, <2>3
<1>8. P(a) \in Nat \ {0} /\ P(a + b) = P(a) * P(b)
  BY <1>4, <1>5
<1>. QED BY <1>7, <1>8 DEF P

-------------------------------------------------------------------------------
(* The widths                                                                 *)

\* A byte has room for a bit of the value and the bit above it.
LEMMA Widths ==
  /\ Continue \in Nat /\ Continue >= 2 /\ Range32 \in Nat /\ Range32 >= 2
  /\ Range32 = 2 * (Range32 \div 2) /\ Range32 \div 2 \in Nat /\ Range32 \div 2 >= 1
<1>1. GroupBits \in Nat /\ GroupBits > 0 /\ Width \in Nat /\ Width > 0 /\ Width - 1 \in Nat
  BY WidthsAssumption
<1>2. 2 ^ 0 = 1
  OBVIOUS
<1>3. 2 * 2 ^ 0 <= 2 ^ (0 + GroupBits) /\ 2 ^ GroupBits \in Nat
  BY <1>1, PowersAdd
<1>4. Continue \in Nat /\ Continue >= 2
  <2>1. 0 + GroupBits = GroupBits
    BY <1>1
  <2>. QED BY <1>2, <1>3, <2>1 DEF Continue
<1>5. Range32 = 2 ^ (Width - 1) + 2 ^ (Width - 1) /\ 2 ^ (Width - 1) \in Nat \ {0}
  <2>1. (Width - 1) + 1 = Width
    BY <1>1
  <2>2. 2 ^ ((Width - 1) + 1) = 2 ^ (Width - 1) + 2 ^ (Width - 1)
    BY <1>1, NextPower
  <2>3. 2 ^ (Width - 1) \in Nat \ {0}
    BY <1>1, PowersAdd
  <2>. QED BY <2>1, <2>2, <2>3 DEF Range32
<1>6. \A h \in Nat \ {0} : (h + h) \div 2 = h /\ h + h = 2 * h /\ h + h >= 2
  OBVIOUS
<1>. QED BY <1>4, <1>5, <1>6

\* The bits of a size's bytes are as many as the width's from the last byte on.
LEMMA MaxSizeIs ==
  /\ MaxSize \in Nat \ {0}
  /\ \A size \in Nat : size * GroupBits >= Width <=> size >= MaxSize
<1> DEFINE q == (Width + GroupBits - 1) \div GroupBits
           r == (Width + GroupBits - 1) % GroupBits
<1>1. GroupBits \in Nat /\ GroupBits > 0 /\ Width \in Nat /\ Width > 0
  BY WidthsAssumption
<1>2. q \in Int /\ r \in 0 .. GroupBits - 1 /\ Width + GroupBits - 1 = q * GroupBits + r
  BY <1>1
<1> HIDE DEF q, r
<1>3. q * GroupBits >= Width /\ q * GroupBits < Width + GroupBits
  BY <1>1, <1>2
<1>4. \A x, y \in Int : x <= y => x * GroupBits <= y * GroupBits
  BY <1>1
<1>5. q >= 1
  <2>1. SUFFICES ASSUME q <= 0 PROVE FALSE
    BY <1>2
  <2>2. q * GroupBits <= 0 * GroupBits
    BY <1>2, <1>4, <2>1
  <2>. QED BY <1>1, <1>2, <1>3, <2>2
<1>6. ASSUME NEW size \in Nat PROVE size * GroupBits >= Width <=> size >= q
  <2>1. CASE size >= q
    <3>1. q * GroupBits <= size * GroupBits /\ size * GroupBits \in Int /\ q * GroupBits \in Int
      BY <1>1, <1>2, <1>4, <2>1
    <3>. QED BY <1>1, <1>3, <2>1, <3>1
  <2>2. CASE size < q
    <3>1. size <= q - 1 /\ q - 1 \in Int
      BY <1>2, <2>2
    <3>2. size * GroupBits <= (q - 1) * GroupBits
      BY <1>4, <3>1
    <3>3. (q - 1) * GroupBits = q * GroupBits - GroupBits
      BY <1>1, <1>2
    <3>4. size * GroupBits \in Int /\ q * GroupBits \in Int
      BY <1>1, <1>2
    <3>5. size * GroupBits < Width
      <4> DEFINE x == size * GroupBits
                 y == q * GroupBits
      <4>1. x <= y - GroupBits /\ y < Width + GroupBits /\ x \in Int /\ y \in Int
        BY <1>3, <3>2, <3>3, <3>4
      <4> HIDE DEF x, y
      <4>2. x < Width
        BY <1>1, <4>1
      <4>. QED BY <4>2 DEF x
    <3>6. ~(size >= q)
      BY <1>2, <2>2
    <3>7. ~(size * GroupBits >= Width)
      BY <1>1, <3>4, <3>5
    <3>. QED BY <3>6, <3>7
  <2>. QED BY <1>2, <2>1, <2>2
<1>7. MaxSize = q
  BY DEF MaxSize, q
<1>. QED BY <1>2, <1>5, <1>6, <1>7

\* What a byte has of the value.
LEMMA Groups ==
  ASSUME NEW c \in ByteValues
  PROVE  c \in Nat /\ c % Continue \in Nat /\ c % Continue < Continue
         /\ (c < Continue => c % Continue = c)
         /\ (c >= Continue => c % Continue = c - Continue)
<1>1. c \in Nat /\ c < 2 * Continue /\ Continue \in Nat /\ Continue >= 2
  BY Widths DEF ByteValues
<1> HIDE DEF Continue
<1>. QED BY <1>1

-------------------------------------------------------------------------------
(* Adding up the groups                                                       *)

\* The sums are those of one group more each.
LEMMA SumsAre ==
  ASSUME NEW b \in Seq(ByteValues)
  PROVE  /\ Sums(b) \in [0 .. Len(b) -> Nat]
         /\ Sums(b)[0] = 0
         /\ \A k \in 1 .. Len(b) :
              Sums(b)[k] = Sums(b)[k - 1] + (b[k] % Continue) * 2 ^ ((k - 1) * GroupBits)
<1> DEFINE n == Len(b)
           D == 0 .. n
           part(k) == (b[k] % Continue) * 2 ^ ((k - 1) * GroupBits)
           Value(g, k) == IF k = 0 THEN 0 ELSE g[k - 1] + part(k)
           sum == CHOOSE g : g = [k \in D |-> Value(g, k)]
<1>1. Sums(b) = sum
  BY Zenon DEF Sums
<1>2. n \in Nat
  OBVIOUS
<1>3. \A k \in 1 .. n : part(k) \in Nat
  <2>1. SUFFICES ASSUME NEW k \in 1 .. n PROVE part(k) \in Nat
    OBVIOUS
  <2>2. b[k] \in ByteValues /\ (k - 1) * GroupBits \in Nat
    BY WidthsAssumption
  <2>3. b[k] % Continue \in Nat /\ 2 ^ ((k - 1) * GroupBits) \in Nat
    BY <2>2, Groups, PowersAdd
  <2>. QED BY <2>3
<1>4. \E g \in [D -> Nat] : \A k \in D : g[k] = Value(g, k)
  <2> DEFINE rank == [k \in D |-> k]
             B == {0}
             out == [k \in B |-> 0]
             from == [k \in D \ B |-> k - 1]
             step == [k \in D \ B |-> [x \in Nat |-> x + part(k)]]
  <2>1. rank \in [D -> 0 .. n] /\ B \subseteq D /\ out \in [B -> Nat] /\ from \in [D \ B -> D]
    BY <1>2
  <2>2. step \in [D \ B -> [Nat -> Nat]]
    <3>1. \A k \in D \ B : k \in 1 .. n
      BY <1>2
    <3> HIDE DEF part
    <3>2. \A k \in D \ B : [x \in Nat |-> x + part(k)] \in [Nat -> Nat]
      BY <1>3, <3>1
    <3>. QED BY <3>2
  <2>3. \A k \in D \ B : rank[from[k]] < rank[k]
    BY <1>2
  <2>4. \E g \in [D -> Nat] :
           \A k \in D : g[k] = IF k \in B THEN out[k] ELSE step[k][g[from[k]]]
    <3> HIDE DEF D, B, rank, out, from, step
    <3>1. Calls(D, Nat, n, rank, B, out, from, step)
      BY <1>2, <2>1, <2>2, <2>3, Zenon DEF Calls
    <3> HIDE DEF D, B, rank, out, from, step
    <3>2. \E g : Solves(g, D, Nat, B, out, from, step)
      BY <3>1, Recursion
    <3>. QED BY <3>2 DEF Solves
  <2>5. PICK g \in [D -> Nat] : \A k \in D : g[k] = IF k \in B THEN out[k] ELSE step[k][g[from[k]]]
    BY <2>4
  <2>6. ASSUME NEW k \in D PROVE g[k] = Value(g, k)
    <3>1. CASE k = 0
      BY <2>5, <3>1
    <3>2. CASE k # 0
      <4>1. k \in D \ B /\ from[k] = k - 1 /\ k - 1 \in D
        BY <1>2, <3>2
      <4> HIDE DEF part
      <4>2. step[k] = [x \in Nat |-> x + part(k)] /\ g[k - 1] \in Nat
        BY <4>1
      <4>3. g[k] = step[k][g[k - 1]]
        BY <2>5, <4>1
      <4>. QED BY <3>2, <4>2, <4>3
    <3>. QED BY <3>1, <3>2
  <2>. QED BY <2>6
<1>5. \E g : g = [k \in D |-> Value(g, k)] /\ g \in [D -> Nat]
  <2>1. PICK g \in [D -> Nat] : \A k \in D : g[k] = Value(g, k)
    BY <1>4
  <2> HIDE DEF D, Value
  <2>2. g = [k \in D |-> Value(g, k)]
    BY <2>1
  <2>. QED BY <2>2
<1>6. sum = [k \in D |-> Value(sum, k)]
  <2>1. \E g : g = [k \in D |-> Value(g, k)]
    BY <1>5
  <2>. QED BY <2>1, Zenon
<1> HIDE DEF sum
<1>7. \A k \in D : sum[k] = Value(sum, k)
  BY <1>6
<1>8. \A k \in D : sum[k] \in Nat
  <2> DEFINE T == {k \in Nat : k \in D => sum[k] \in Nat}
  <2>1. 0 \in T
    BY <1>7
  <2>2. ASSUME NEW k \in T PROVE k + 1 \in T
    <3>1. SUFFICES ASSUME k + 1 \in D PROVE sum[k + 1] \in Nat
      OBVIOUS
    <3>2. k \in D /\ k + 1 \in 1 .. n /\ k + 1 # 0 /\ (k + 1) - 1 = k
      BY <3>1
    <3> HIDE DEF part
    <3>3. sum[k] \in Nat /\ part(k + 1) \in Nat
      BY <1>3, <3>2
    <3>4. sum[k + 1] = sum[(k + 1) - 1] + part(k + 1)
      BY <1>7, <3>1, <3>2
    <3>. QED BY <3>2, <3>3, <3>4
  <2>3. T \subseteq Nat
    OBVIOUS
  <2>4. T = Nat
    <3> HIDE DEF T
    <3>. QED BY <2>1, <2>2, <2>3, SetInduction
  <2>. QED BY <2>4
<1>9. sum \in [D -> Nat]
  BY <1>6, <1>8
<1>10. sum[0] = 0 /\ \A k \in 1 .. n : sum[k] = sum[k - 1] + part(k)
  <2>1. 0 \in D /\ \A k \in 1 .. n : k \in D /\ k # 0
    BY <1>2
  <2> HIDE DEF D, part
  <2>. QED BY <1>7, <2>1
<1>. QED BY <1>1, <1>9, <1>10

\* Dividing has one outcome.
LEMMA Division ==
  ASSUME NEW x \in Int, NEW m \in Nat \ {0}, NEW q \in Int, NEW r \in 0 .. m - 1, x = q * m + r
  PROVE  x \div m = q /\ x % m = r
  OBVIOUS

\* What is cut to the width stays as it is when it is cut again.
LEMMA CutAgain ==
  ASSUME NEW s \in Int, NEW m \in Nat \ {0}
  PROVE  s % m \in 0 .. m - 1 /\ (s % m) % m = s % m
<1>1. s % m \in 0 .. m - 1 /\ s % m \in Int /\ 0 \in Int
  OBVIOUS
<1>2. s % m = 0 * m + (s % m)
  BY <1>1
<1>. QED BY <1>1, <1>2, Division, Zenon

\* What is cut to the width before it is added to may as well be cut after.
LEMMA CutOnce ==
  ASSUME NEW s \in Int, NEW x \in Int, NEW m \in Nat \ {0}
  PROVE  ((s % m) + x) % m = (s + x) % m
<1> DEFINE p == s \div m
           q == ((s % m) + x) \div m
           r == ((s % m) + x) % m
<1>1. p \in Int /\ s % m \in 0 .. m - 1 /\ s = p * m + (s % m)
  OBVIOUS
<1>2. q \in Int /\ r \in 0 .. m - 1 /\ (s % m) + x = q * m + r
  <2>1. (s % m) + x \in Int
    BY <1>1
  <2>. QED BY <2>1
<1>3. s + x = (p + q) * m + r
  <2> HIDE DEF p, q, r
  <2>1. p * m \in Int /\ q * m \in Int /\ (p + q) * m = p * m + q * m
    BY <1>1, <1>2
  <2>. QED BY <1>1, <1>2, <2>1
<1>4. p + q \in Int /\ s + x \in Int
  BY <1>1, <1>2
<1> HIDE DEF p, q, r
<1>5. (s + x) % m = r
  BY <1>2, <1>3, <1>4, Division
<1>. QED BY <1>5 DEF r

-------------------------------------------------------------------------------
(* Reading                                                                    *)

\* What readVarInt has made of the bytes when size of them are read.
Reads(b, loop, size) ==
  IF size * GroupBits >= Width THEN Result(0, size, "VarInt too big")
  ELSE IF size = Len(b) THEN Result(0, size, "EOF")
  ELSE IF b[size + 1] < Continue
       THEN Result(ToSigned(Sums(b)[size + 1] % Range32), size + 1, "none")
  ELSE loop[size + 1]

\* The loop of readVarInt, with the sums for what it has of the value.
LEMMA readVarIntLoop ==
  ASSUME NEW b \in Seq(ByteValues)
  PROVE  \E loop : readVarInt(b) = loop[0] /\ \A size \in 0 .. Len(b) : loop[size] = Reads(b, loop, size)
<1> DEFINE n == Len(b)
           D == 0 .. n
           part(k) == (b[k] % Continue) * 2 ^ ((k - 1) * GroupBits)
           Value(g, k) == IF k = 0 THEN 0 ELSE (g[k - 1] + part(k)) % Range32
           value == CHOOSE g : g = [k \in D |-> Value(g, k)]
           Turn(v, g, size) ==
             IF size * GroupBits >= Width THEN Result(0, size, "VarInt too big")
             ELSE IF size = Len(b) THEN Result(0, size, "EOF")
             ELSE IF b[size + 1] < Continue THEN Result(ToSigned(v[size + 1]), size + 1, "none")
             ELSE g[size + 1]
           loop == CHOOSE g : g = [size \in D |-> Turn(value, g, size)]
<1>1. readVarInt(b) = loop[0]
  BY Zenon DEF readVarInt
<1>2. n \in Nat /\ Range32 \in Nat \ {0}
  BY Widths
<1>3. \A k \in D : Sums(b)[k] \in Nat
  BY SumsAre
<1>4. Sums(b)[0] = 0 /\ \A k \in 1 .. n : part(k) \in Nat /\ Sums(b)[k] = Sums(b)[k - 1] + part(k)
  <2>1. \A k \in 1 .. n : part(k) \in Nat
    <3>1. SUFFICES ASSUME NEW k \in 1 .. n PROVE part(k) \in Nat
      OBVIOUS
    <3>2. b[k] \in ByteValues /\ (k - 1) * GroupBits \in Nat
      BY WidthsAssumption
    <3>3. b[k] % Continue \in Nat /\ 2 ^ ((k - 1) * GroupBits) \in Nat
      BY <3>2, Groups, PowersAdd
    <3>. QED BY <3>3
  <2>. QED BY <2>1, SumsAre
<1> HIDE DEF part
<1>5. ASSUME NEW g, NEW k \in 1 .. n, g[k - 1] = Sums(b)[k - 1] % Range32
      PROVE  Value(g, k) = Sums(b)[k] % Range32
  <2>1. k # 0 /\ k - 1 \in D /\ part(k) \in Int /\ Sums(b)[k - 1] \in Int
    BY <1>2, <1>3, <1>4
  <2>2. Value(g, k) = ((Sums(b)[k - 1] % Range32) + part(k)) % Range32
    BY <1>5, <2>1
  <2>3. ((Sums(b)[k - 1] % Range32) + part(k)) % Range32 = (Sums(b)[k - 1] + part(k)) % Range32
    BY <1>2, <2>1, CutOnce
  <2>. QED BY <1>4, <2>2, <2>3
<1>6. 0 % Range32 = 0
  BY <1>2
<1>7. value = [k \in D |-> Value(value, k)]
  <2> DEFINE g == [k \in D |-> Sums(b)[k] % Range32]
  <2>1. ASSUME NEW k \in D PROVE g[k] = Value(g, k)
    <3>1. CASE k = 0
      BY <1>4, <1>6, <3>1
    <3>2. CASE k # 0
      <4>1. k \in 1 .. n /\ k - 1 \in D
        BY <1>2, <3>2
      <4>2. g[k - 1] = Sums(b)[k - 1] % Range32 /\ g[k] = Sums(b)[k] % Range32
        BY <4>1
      <4> HIDE DEF g, Value
      <4>. QED BY <1>5, <4>1, <4>2
    <3>. QED BY <3>1, <3>2
  <2>2. g = [k \in D |-> Value(g, k)]
    BY <2>1
  <2>3. \E h : h = [k \in D |-> Value(h, k)]
    <3> HIDE DEF g, D, Value
    <3>. QED BY <2>2
  <2>. QED BY <2>3, Zenon
<1>8. \A k \in D : value[k] = Sums(b)[k] % Range32
  <2> HIDE DEF value
  <2> DEFINE T == {k \in Nat : k \in D => value[k] = Sums(b)[k] % Range32}
  <2>1. 0 \in T
    BY <1>4, <1>6, <1>7
  <2>2. ASSUME NEW k \in T PROVE k + 1 \in T
    <3>1. SUFFICES ASSUME k + 1 \in D PROVE value[k + 1] = Sums(b)[k + 1] % Range32
      OBVIOUS
    <3>2. k \in D /\ k + 1 \in 1 .. n /\ (k + 1) - 1 = k
      BY <3>1
    <3>3. value[(k + 1) - 1] = Sums(b)[(k + 1) - 1] % Range32
      BY <3>2
    <3>4. value[k + 1] = Value(value, k + 1)
      BY <1>7, <3>1
    <3> HIDE DEF Value
    <3>. QED BY <1>5, <3>2, <3>3, <3>4
  <2>3. T \subseteq Nat
    OBVIOUS
  <2>4. T = Nat
    <3> HIDE DEF T
    <3>. QED BY <2>1, <2>2, <2>3, SetInduction
  <2>. QED BY <2>4
<1> HIDE DEF value, Value
<1>9. loop = [size \in D |-> Turn(value, loop, size)]
  <2> DEFINE stops == {size \in D : \/ size * GroupBits >= Width \/ size = n
                                    \/ b[size + 1] < Continue}
             S == {Turn(value, b, size) : size \in stops}
             rank == [size \in D |-> n - size]
             out == [size \in stops |-> Turn(value, b, size)]
             from == [size \in D \ stops |-> size + 1]
             step == [size \in D \ stops |-> [x \in S |-> x]]
  <2>1. stops \subseteq D /\ \A size \in D \ stops : size + 1 \in D /\ n - (size + 1) < n - size
    BY <1>2
  <2>2. Calls(D, S, n, rank, stops, out, from, step)
    <3>1. rank \in [D -> 0 .. n]
      BY <1>2
    <3>2. out \in [stops -> S] /\ step \in [D \ stops -> [S -> S]]
      OBVIOUS
    <3>3. from \in [D \ stops -> D]
      BY <2>1
    <3>4. \A size \in D \ stops : rank[from[size]] < rank[size]
      BY <2>1
    <3>. QED BY <1>2, <2>1, <3>1, <3>2, <3>3, <3>4, Zenon DEF Calls
  <2>3. PICK g : Solves(g, D, S, stops, out, from, step)
    <3> HIDE DEF D, S, rank, stops, out, from, step
    <3>. QED BY <2>2, Recursion
  <2>4. ASSUME NEW size \in D PROVE g[size] = Turn(value, g, size)
    <3>1. CASE size \in stops
      <4>1. g[size] = Turn(value, b, size)
        BY <2>3, <3>1 DEF Solves
      <4>. QED BY <3>1, <4>1
    <3>2. CASE size \notin stops
      <4>1. g[size] = step[size][g[from[size]]] /\ g[size + 1] \in S
        BY <2>1, <2>3, <3>2 DEF Solves
      <4>2. g[size] = g[size + 1]
        <5> HIDE DEF S
        <5>. QED BY <3>2, <4>1
      <4>. QED BY <3>2, <4>2
    <3>. QED BY <3>1, <3>2
  <2>5. \E h : h = [size \in D |-> Turn(value, h, size)]
    <3>1. DOMAIN g = D /\ g = [size \in DOMAIN g |-> g[size]]
      <4> HIDE DEF D, S
      <4>. QED BY <2>3 DEF Solves
    <3> HIDE DEF D, Turn
    <3>2. g = [size \in D |-> Turn(value, g, size)]
      BY <2>4, <3>1
    <3>. QED BY <3>2
  <2>. QED BY <2>5, Zenon
<1>10. ASSUME NEW size \in D PROVE loop[size] = Reads(b, loop, size)
  <2> HIDE DEF loop
  <2>1. loop[size] = Turn(value, loop, size)
    BY <1>9
  <2>2. size # n => size + 1 \in D
    BY <1>2
  <2>3. size # n => value[size + 1] = Sums(b)[size + 1] % Range32
    BY <1>8, <2>2
  <2> HIDE DEF D
  <2>. QED BY <2>1, <2>3 DEF Reads
<1> HIDE DEF loop
<1>. QED BY <1>1, <1>10

\* Bytes with the bit above the group set are read on from, within the width.
LEMMA ReadOn ==
  ASSUME NEW b \in Seq(ByteValues), NEW loop,
         \A size \in 0 .. Len(b) : loop[size] = Reads(b, loop, size),
         NEW j \in 0 .. Len(b), j <= MaxSize, \A k \in 1 .. j : b[k] >= Continue
  PROVE  loop[0] = loop[j]
<1> DEFINE T == {i \in Nat : i <= j => loop[0] = loop[i]}
<1>1. 0 \in T
  OBVIOUS
<1>2. ASSUME NEW i \in T PROVE i + 1 \in T
  <2>1. SUFFICES ASSUME i + 1 <= j PROVE loop[0] = loop[i + 1]
    OBVIOUS
  <2>2. i \in 0 .. Len(b) /\ i + 1 \in 1 .. j /\ i # Len(b) /\ loop[0] = loop[i] /\ i < MaxSize
    BY <2>1, MaxSizeIs
  <2>3. ~(i * GroupBits >= Width)
    BY <2>2, MaxSizeIs
  <2>4. ~(b[i + 1] < Continue)
    <3>1. b[i + 1] \in Nat /\ b[i + 1] >= Continue
      BY <2>2, Groups
    <3>. QED BY <3>1, Widths
  <2>5. loop[i] = Reads(b, loop, i)
    BY <2>2
  <2>. QED BY <2>2, <2>3, <2>4, <2>5 DEF Reads
<1>3. T \subseteq Nat
  OBVIOUS
<1>4. T = Nat
  <2> HIDE DEF T
  <2>. QED BY <1>1, <1>2, <1>3, SetInduction
<1>. QED BY <1>4

\* A byte that ends the value within the width is where it is read up to.
LEMMA ReadsAnEnd ==
  ASSUME NEW b \in Seq(ByteValues), NEW n \in 1 .. Len(b), n <= MaxSize,
         b[n] < Continue, \A k \in 1 .. n - 1 : b[k] >= Continue
  PROVE  readVarInt(b) = Result(ToSigned(Sums(b)[n]), n, "none")
<1>1. PICK loop : readVarInt(b) = loop[0] /\ \A size \in 0 .. Len(b) : loop[size] = Reads(b, loop, size)
  BY readVarIntLoop
<1>2. n - 1 \in 0 .. Len(b) /\ n - 1 <= MaxSize /\ (n - 1) + 1 = n /\ n - 1 # Len(b)
      /\ n - 1 \in Nat /\ ~(n - 1 >= MaxSize)
  BY MaxSizeIs
<1>3. loop[0] = loop[n - 1]
  BY <1>1, <1>2, ReadOn
<1>4. ~((n - 1) * GroupBits >= Width)
  BY <1>2, MaxSizeIs
<1>5. loop[n - 1] = Reads(b, loop, n - 1)
  BY <1>1, <1>2
<1>6. loop[n - 1] = Result(ToSigned(Sums(b)[n] % Range32), n, "none")
  BY <1>2, <1>4, <1>5 DEF Reads
<1>7. ToSigned(Sums(b)[n] % Range32) = ToSigned(Sums(b)[n])
  <2>1. Sums(b)[n] \in Int /\ Range32 \in Nat \ {0}
    BY SumsAre, Widths
  <2>2. (Sums(b)[n] % Range32) % Range32 = Sums(b)[n] % Range32
    BY <2>1, CutAgain
  <2>. QED BY <2>2 DEF ToSigned
<1>. QED BY <1>1, <1>3, <1>6, <1>7

\* Without such a byte it is too big if all the width has room for is there.
LEMMA ReadsNoEnd ==
  ASSUME NEW b \in Seq(ByteValues), \A k \in 1 .. Len(b) : k <= MaxSize => b[k] >= Continue
  PROVE  readVarInt(b) = IF Len(b) >= MaxSize THEN Result(0, MaxSize, "VarInt too big")
                         ELSE Result(0, Len(b), "EOF")
<1>1. PICK loop : readVarInt(b) = loop[0] /\ \A size \in 0 .. Len(b) : loop[size] = Reads(b, loop, size)
  BY readVarIntLoop
<1>2. CASE Len(b) >= MaxSize
  <2>1. MaxSize \in 0 .. Len(b) /\ MaxSize * GroupBits >= Width
    BY <1>2, MaxSizeIs
  <2>2. \A k \in 1 .. MaxSize : b[k] >= Continue
    BY <1>2, MaxSizeIs
  <2>3. loop[0] = loop[MaxSize]
    <3>1. MaxSize <= MaxSize
      BY MaxSizeIs
    <3>. QED BY <1>1, <2>1, <2>2, <3>1, ReadOn
  <2>4. loop[MaxSize] = Reads(b, loop, MaxSize)
    BY <1>1, <2>1
  <2>. QED BY <1>1, <1>2, <2>1, <2>3, <2>4 DEF Reads
<1>3. CASE ~(Len(b) >= MaxSize)
  <2>1. Len(b) \in 0 .. Len(b) /\ Len(b) <= MaxSize
    BY <1>3, MaxSizeIs
  <2>2. ~(Len(b) * GroupBits >= Width)
    BY <1>3, MaxSizeIs
  <2>3. loop[0] = loop[Len(b)]
    <3>1. \A k \in 1 .. Len(b) : b[k] >= Continue
      BY <2>1, MaxSizeIs
    <3>. QED BY <1>1, <2>1, <3>1, ReadOn
  <2>4. loop[Len(b)] = Reads(b, loop, Len(b))
    BY <1>1, <2>1
  <2>. QED BY <1>1, <1>3, <2>2, <2>3, <2>4 DEF Reads
<1>. QED BY <1>2, <1>3

\* Where there are bytes that end the value within the width, one is the first.
LEMMA FirstEnd ==
  ASSUME NEW b \in Seq(ByteValues), NEW j \in 1 .. Len(b), j <= MaxSize, b[j] < Continue
  PROVE  \E n \in 1 .. Len(b) : /\ n <= MaxSize /\ b[n] < Continue
                                /\ \A k \in 1 .. n - 1 : b[k] >= Continue
<1> DEFINE ends == {k \in 1 .. Len(b) : b[k] < Continue /\ k <= MaxSize}
<1>1. ends # {} /\ ends \subseteq Nat
  OBVIOUS
<1>2. IsWellFoundedOn(Less, Nat)
  BY NatLessThanWellFounded DEF Less
<1>3. PICK n \in ends : \A k \in ends : ~(<<k, n>> \in Less)
  <2> HIDE DEF ends
  <2>. QED BY <1>1, <1>2, WFMin
<1>4. ASSUME NEW k \in 1 .. n - 1 PROVE b[k] >= Continue
  <2>1. SUFFICES ASSUME b[k] < Continue PROVE FALSE
    <3>1. k \in 1 .. Len(b)
      OBVIOUS
    <3>2. b[k] \in Nat
      BY <3>1, Groups
    <3>. QED BY <3>2, Widths
  <2>2. k \in ends /\ k < n /\ k \in Nat /\ n \in Nat
    BY <2>1, MaxSizeIs
  <2>3. ~(<<k, n>> \in Less)
    <3> HIDE DEF ends
    <3>. QED BY <1>3, <2>2
  <2>. QED BY <2>2, <2>3, LessIs
<1>. QED BY <1>4

\* Any bytes read as their groups add up.
LEMMA BytesReadAsSummed ==
  ASSUME NEW b \in Seq(ByteValues)
  PROVE  ReadsAsSummed(b)
<1> DEFINE ends == {k \in DOMAIN b : b[k] < Continue /\ k <= MaxSize}
           size == CHOOSE k \in ends : \A j \in ends : k <= j
<1>1. DOMAIN b = 1 .. Len(b) /\ Len(b) \in Nat
  OBVIOUS
<1>2. \A k \in 1 .. Len(b) : b[k] \in Nat
  BY Groups
<1>3. CASE ends # {}
  <2>1. \E k \in ends : \A j \in ends : k <= j
    <3>1. PICK i \in ends : TRUE
      BY <1>3
    <3>2. i \in 1 .. Len(b) /\ i <= MaxSize /\ b[i] < Continue
      BY <1>1
    <3>3. PICK n \in 1 .. Len(b) : /\ n <= MaxSize /\ b[n] < Continue
                                   /\ \A k \in 1 .. n - 1 : b[k] >= Continue
      BY <3>2, FirstEnd
    <3>4. n \in ends
      BY <1>1, <3>3
    <3>5. ASSUME NEW k \in ends PROVE n <= k
      <4>1. k \in 1 .. Len(b) /\ b[k] < Continue /\ b[k] \in Nat
        BY <1>1, <1>2
      <4>2. ~(k \in 1 .. n - 1)
        BY <3>3, <4>1, Widths
      <4>. QED BY <1>1, <3>3, <4>1, <4>2
    <3>. QED BY <3>4, <3>5
  <2>2. size \in ends /\ \A j \in ends : size <= j
    <3> HIDE DEF ends
    <3>. QED BY <2>1
  <2> HIDE DEF size
  <2>3. size \in 1 .. Len(b) /\ size <= MaxSize /\ b[size] < Continue
    BY <1>1, <2>2
  <2>4. \A k \in 1 .. size - 1 : b[k] >= Continue
    <3>1. SUFFICES ASSUME NEW k \in 1 .. size - 1, b[k] < Continue PROVE FALSE
      BY <1>2, <2>3, Widths
    <3>2. k \in ends /\ k < size
      BY <1>1, <2>3, <3>1, MaxSizeIs
    <3>3. size <= k
      <4> HIDE DEF ends
      <4>. QED BY <2>2, <3>2
    <3>. QED BY <2>3, <3>2, <3>3
  <2>5. readVarInt(b) = Result(ToSigned(Sums(b)[size]), size, "none")
    BY <2>3, <2>4, ReadsAnEnd
  <2>. QED BY <1>3, <2>5 DEF ReadsAsSummed, size
<1>4. CASE ends = {}
  <2>1. \A k \in 1 .. Len(b) : k <= MaxSize => b[k] >= Continue
    BY <1>1, <1>2, <1>4, Widths
  <2>2. readVarInt(b) = IF Len(b) >= MaxSize THEN Result(0, MaxSize, "VarInt too big")
                        ELSE Result(0, Len(b), "EOF")
    BY <2>1, ReadsNoEnd
  <2>3. Len(b) >= MaxSize => readVarInt(b).err = "VarInt too big"
    <3>1. SUFFICES ASSUME Len(b) >= MaxSize PROVE readVarInt(b).err = "VarInt too big"
      OBVIOUS
    <3>2. readVarInt(b) = Result(0, MaxSize, "VarInt too big")
      BY <2>2, <3>1
    <3>3. Result(0, MaxSize, "VarInt too big").err = "VarInt too big"
      BY DEF Result
    <3>. QED BY <3>2, <3>3
  <2> HIDE DEF ends
  <2>4. ReadsAsSummed(b) <=>
          IF ends # {} THEN readVarInt(b) = Result(ToSigned(Sums(b)[size]), size, "none")
          ELSE IF Len(b) >= MaxSize THEN readVarInt(b).err = "VarInt too big"
          ELSE readVarInt(b) = Result(0, Len(b), "EOF")
    BY Zenon DEF ReadsAsSummed, ends, size
  <2> HIDE DEF size
  <2>. QED BY <1>4, <2>2, <2>3, <2>4
<1>. QED BY <1>3, <1>4

-------------------------------------------------------------------------------
(* Writing                                                                    *)

\* The groups of a value are its lowest and, if there are more, the others.
Written(groups, u) ==
  IF u < Continue THEN <<u>>
  ELSE <<Continue + (u % Continue)>> \o groups[u \div Continue]

\* What is left of a value without its lowest group is less.
LEMMA OtherGroups ==
  ASSUME NEW u \in Nat, u >= Continue
  PROVE  /\ u \div Continue \in Nat /\ u \div Continue < u /\ u \div Continue >= 1
         /\ u % Continue \in Nat /\ u % Continue < Continue
         /\ u = (u % Continue) + Continue * (u \div Continue)
         /\ Continue + (u % Continue) \in ByteValues
<1>1. Continue \in Nat /\ Continue >= 2
  BY Widths
<1> DEFINE c == Continue
           q == u \div c
           r == u % c
<1>2. q \in Int /\ r \in 0 .. c - 1 /\ u = q * c + r
  BY <1>1
<1>3. c + r \in ByteValues
  BY <1>1, <1>2 DEF ByteValues
<1>4. c \in Nat /\ c >= 2 /\ u >= c
  BY <1>1
<1> HIDE DEF c, q, r
<1>5. q >= 1
  <2>1. SUFFICES ASSUME q <= 0 PROVE FALSE
    BY <1>2
  <2>2. q * c <= 0
    BY <1>2, <1>4, <2>1
  <2>3. q * c \in Int
    BY <1>2, <1>4
  <2>. QED BY <1>2, <1>4, <2>2, <2>3
<1>6. q * c >= q + q /\ q * c = c * q
  BY <1>2, <1>4, <1>5
<1>7. q < u
  <2>1. q * c \in Int
    BY <1>2, <1>4
  <2>. QED BY <1>2, <1>4, <1>5, <1>6, <2>1
<1>8. u = r + c * q
  <2>1. c * q \in Int /\ r \in Int
    BY <1>2, <1>4
  <2>. QED BY <1>2, <1>6, <2>1
<1>. QED BY <1>2, <1>3, <1>4, <1>5, <1>7, <1>8 DEF c, q, r

\* AppendVarInt writes the groups.
LEMMA AppendVarIntGroups ==
  \E groups \in [0 .. Range32 - 1 -> Seq(ByteValues)] :
    /\ \A u \in 0 .. Range32 - 1 : groups[u] = Written(groups, u)
    /\ \A dst, value : AppendVarInt(dst, value) = dst \o groups[ToUnsigned(value)]
<1> DEFINE D == 0 .. Range32 - 1
           S == Seq(ByteValues)
           groups == CHOOSE g : g = [u \in D |-> Written(g, u)]
<1>1. \A dst, value : AppendVarInt(dst, value) = dst \o groups[ToUnsigned(value)]
  BY Zenon DEF AppendVarInt, Written
<1>2. Range32 - 1 \in Nat
  BY Widths
<1>3. \A u \in D : u < Continue => <<u>> \in S
  <2>1. SUFFICES ASSUME NEW u \in D, u < Continue PROVE u \in ByteValues
    OBVIOUS
  <2>. QED BY <1>2, <2>1, Widths DEF ByteValues
<1>4. \A u \in D : ~(u < Continue) =>
        /\ u \div Continue \in D /\ u \div Continue < u /\ Continue + (u % Continue) \in ByteValues
  <2>1. SUFFICES ASSUME NEW u \in D, ~(u < Continue)
                 PROVE  u \div Continue \in D /\ u \div Continue < u
                        /\ Continue + (u % Continue) \in ByteValues
    OBVIOUS
  <2>2. u \in Nat /\ u >= Continue
    BY <1>2, <2>1, Widths
  <2>3. u \div Continue \in Nat /\ u \div Continue < u /\ Continue + (u % Continue) \in ByteValues
    BY <2>2, OtherGroups
  <2> DEFINE q == u \div Continue
  <2>4. q \in D
    <3> HIDE DEF q
    <3>1. q \in Nat /\ q < u
      BY <2>3 DEF q
    <3>. QED BY <1>2, <3>1
  <2>. QED BY <2>3, <2>4
<1> DEFINE stops == {u \in D : u < Continue}
           rank == [u \in D |-> u]
           out == [u \in stops |-> <<u>>]
           from == [u \in D \ stops |-> u \div Continue]
           step == [u \in D \ stops |-> [x \in S |-> <<Continue + (u % Continue)>> \o x]]
<1>5. Calls(D, S, Range32 - 1, rank, stops, out, from, step)
  <2>1. rank \in [D -> 0 .. Range32 - 1] /\ stops \subseteq D
    OBVIOUS
  <2>2. out \in [stops -> S]
    BY <1>3
  <2>3. from \in [D \ stops -> D] /\ \A u \in D \ stops : rank[from[u]] < rank[u]
    BY <1>4
  <2>4. step \in [D \ stops -> [S -> S]]
    <3>1. ASSUME NEW u \in D \ stops
          PROVE [x \in S |-> <<Continue + (u % Continue)>> \o x] \in [S -> S]
      <4>1. Continue + (u % Continue) \in ByteValues
        BY <1>4
      <4> DEFINE y == Continue + (u % Continue)
      <4>2. y \in ByteValues
        BY <4>1
      <4> HIDE DEF y
      <4>3. \A x \in S : <<y>> \o x \in S
        BY <4>2
      <4>. QED BY <4>3 DEF y
    <3>. QED BY <3>1
  <2>. QED BY <1>2, <2>1, <2>2, <2>3, <2>4, Zenon DEF Calls
<1>6. PICK g : Solves(g, D, S, stops, out, from, step)
  <2> HIDE DEF D, S, rank, stops, out, from, step
  <2>. QED BY <1>5, Recursion
<1>7. ASSUME NEW u \in D PROVE g[u] = Written(g, u) /\ g[u] \in S
  <2>1. g[u] \in S
    <3> HIDE DEF D, S
    <3>. QED BY <1>6 DEF Solves
  <2>2. CASE u \in stops
    <3>1. g[u] = out[u]
      BY <1>6, <2>2 DEF Solves
    <3>. QED BY <2>1, <2>2, <3>1 DEF Written
  <2>3. CASE u \notin stops
    <3>1. g[u] = step[u][g[u \div Continue]] /\ u \div Continue \in D
      BY <1>4, <1>6, <2>3 DEF Solves
    <3>2. g[u \div Continue] \in S
      <4> HIDE DEF D, S
      <4>. QED BY <1>6, <3>1 DEF Solves
    <3>3. g[u] = <<Continue + (u % Continue)>> \o g[u \div Continue]
      <4> HIDE DEF S
      <4>. QED BY <2>3, <3>1, <3>2
    <3>. QED BY <2>1, <2>3, <3>3 DEF Written
  <2>. QED BY <2>2, <2>3
<1>8. \E h : h = [u \in D |-> Written(h, u)]
  <2>1. DOMAIN g = D /\ g = [u \in DOMAIN g |-> g[u]]
    <3> HIDE DEF D, S
    <3>. QED BY <1>6 DEF Solves
  <2> HIDE DEF D
  <2>2. g = [u \in D |-> Written(g, u)]
    BY <1>7, <2>1
  <2>. QED BY <2>2
<1>9. groups = [u \in D |-> Written(groups, u)]
  BY <1>8, Zenon
<1> HIDE DEF groups
<1>10. \A u \in D : groups[u] = Written(groups, u)
  BY <1>9
<1>11. \A u \in D : groups[u] \in S
  <2> DEFINE T == {n \in Nat : \A u \in D : u < n => groups[u] \in S}
  <2>1. 0 \in T
    OBVIOUS
  <2>2. ASSUME NEW n \in T PROVE n + 1 \in T
    <3>1. SUFFICES ASSUME NEW u \in D, u < n + 1 PROVE groups[u] \in S
      OBVIOUS
    <3>2. CASE u < Continue
      BY <1>3, <1>10, <3>2 DEF Written
    <3>3. CASE ~(u < Continue)
      <4> DEFINE q == u \div Continue
                 y == Continue + (u % Continue)
      <4>1. q \in D /\ q < u /\ y \in ByteValues
        BY <1>4, <3>3
      <4>2. groups[u] = <<y>> \o groups[q]
        BY <1>10, <3>3 DEF Written
      <4> HIDE DEF q, y
      <4>3. groups[q] \in S
        BY <3>1, <4>1
      <4>. QED BY <4>1, <4>2, <4>3
    <3>. QED BY <3>2, <3>3
  <2>3. T \subseteq Nat
    OBVIOUS
  <2>4. T = Nat
    <3> HIDE DEF T
    <3>. QED BY <2>1, <2>2, <2>3, SetInduction
  <2>5. SUFFICES ASSUME NEW u \in D PROVE groups[u] \in S
    OBVIOUS
  <2>6. u + 1 \in T /\ u < u + 1
    <3>1. u \in Nat /\ u + 1 \in Nat
      OBVIOUS
    <3> HIDE DEF T
    <3>. QED BY <2>4, <3>1
  <2>. QED BY <2>6
<1>12. groups \in [D -> S]
  <2> HIDE DEF D, S
  <2>. QED BY <1>9, <1>11
<1>. QED BY <1>1, <1>10, <1>12

\* A number of any size is written as bytes.
LEMMA AppendVarIntBytes ==
  ASSUME NEW value \in Int
  PROVE  AppendVarInt(<<>>, value) \in Seq(ByteValues)
<1>1. PICK groups \in [0 .. Range32 - 1 -> Seq(ByteValues)] :
        \A dst, v : AppendVarInt(dst, v) = dst \o groups[ToUnsigned(v)]
  BY AppendVarIntGroups
<1>2. ToUnsigned(value) \in 0 .. Range32 - 1
  <2> DEFINE m == Range32
  <2>1. m \in Nat /\ m >= 2
    BY Widths
  <2> HIDE DEF m
  <2>2. value % m \in 0 .. m - 1
    BY <2>1
  <2>. QED BY <2>2 DEF ToUnsigned, m
<1> DEFINE b == groups[ToUnsigned(value)]
<1>3. b \in Seq(ByteValues)
  BY <1>2
<1>4. AppendVarInt(<<>>, value) = <<>> \o b
  BY <1>1
<1> HIDE DEF b
<1>. QED BY <1>3, <1>4

\* What is in front of the groups moves them up.
LEMMA SumsBehind ==
  ASSUME NEW s \in Seq(ByteValues), NEW y \in ByteValues
  PROVE  \A k \in 0 .. Len(s) : Sums(<<y>> \o s)[k + 1] = (y % Continue) + Continue * Sums(s)[k]
<1> DEFINE t == <<y>> \o s
           T == {k \in Nat : k <= Len(s) => Sums(t)[k + 1] = (y % Continue) + Continue * Sums(s)[k]}
<1>1. /\ t \in Seq(ByteValues) /\ Len(t) = Len(s) + 1 /\ Len(s) \in Nat
      /\ t[1] = y /\ \A k \in 1 .. Len(s) : t[k + 1] = s[k]
  <2>1. t \in Seq(ByteValues)
    OBVIOUS
  <2>2. Len(t) = Len(s) + 1 /\ Len(s) \in Nat
    OBVIOUS
  <2>. QED BY <2>1, <2>2
<1> HIDE DEF t
<1>2. Sums(t)[0] = 0 /\ Sums(s)[0] = 0
  BY <1>1, SumsAre
<1>3. y % Continue \in Nat /\ Continue \in Nat
  BY Groups, Widths
<1>4. 0 \in T
  <2>1. Sums(t)[1] = Sums(t)[1 - 1] + (t[1] % Continue) * 2 ^ ((1 - 1) * GroupBits)
    <3>1. 1 \in 1 .. Len(t)
      BY <1>1
    <3>. QED BY <1>1, <3>1, SumsAre
  <2>2. 1 - 1 = 0 /\ 0 + 1 = 1 /\ 0 * GroupBits = 0 /\ 2 ^ 0 = 1
    BY WidthsAssumption
  <2>3. Sums(t)[1] = 0 + (y % Continue) * 1
    BY <1>1, <1>2, <2>1, <2>2
  <2>4. Sums(t)[0 + 1] = (y % Continue) + Continue * Sums(s)[0]
    BY <1>2, <1>3, <2>2, <2>3
  <2>. QED BY <2>4
<1>5. ASSUME NEW k \in T PROVE k + 1 \in T
  <2>1. SUFFICES ASSUME k + 1 <= Len(s)
                 PROVE  Sums(t)[(k + 1) + 1] = (y % Continue) + Continue * Sums(s)[k + 1]
    OBVIOUS
  <2> DEFINE x == s[k + 1] % Continue
             p == 2 ^ (k * GroupBits)
             q == 2 ^ ((k + 1) * GroupBits)
  <2>2. k \in Nat /\ k + 1 \in 1 .. Len(s) /\ (k + 1) - 1 = k
        /\ (k + 1) + 1 \in 1 .. Len(t) /\ ((k + 1) + 1) - 1 = k + 1 /\ k \in 0 .. Len(s)
    BY <1>1, <2>1
  <2>3. Sums(t)[k + 1] = (y % Continue) + Continue * Sums(s)[k]
    BY <2>2
  <2>4. Sums(s)[k + 1] = Sums(s)[k] + x * p
    <3>1. Sums(s)[k + 1] = Sums(s)[(k + 1) - 1] + x * 2 ^ (((k + 1) - 1) * GroupBits)
      BY <2>2, SumsAre
    <3>. QED BY <2>2, <3>1
  <2>5. Sums(t)[(k + 1) + 1] = Sums(t)[k + 1] + x * q
    <3>1. t[(k + 1) + 1] = s[k + 1]
      BY <1>1, <2>2
    <3>2. Sums(t)[(k + 1) + 1] = Sums(t)[((k + 1) + 1) - 1]
             + (t[(k + 1) + 1] % Continue) * 2 ^ ((((k + 1) + 1) - 1) * GroupBits)
      BY <1>1, <2>2, SumsAre
    <3>. QED BY <2>2, <3>1, <3>2
  <2>6. q = p * Continue /\ p \in Nat
    <3>1. k * GroupBits \in Nat /\ GroupBits \in Nat /\ k * GroupBits + GroupBits = (k + 1) * GroupBits
      BY <2>2, WidthsAssumption
    <3>. QED BY <3>1, PowersAdd DEF Continue
  <2>7. Sums(s)[k] \in Nat /\ x \in Nat
    <3>1. Sums(s)[k] \in Nat
      BY <2>2, SumsAre
    <3>2. s[k + 1] \in ByteValues
      BY <2>2
    <3>. QED BY <3>1, <3>2, Groups
  <2> HIDE DEF p, q, x
  <2>8. x * (p * Continue) = Continue * (x * p)
    BY <1>3, <2>6, <2>7
  <2>9. Continue * (Sums(s)[k] + x * p) = Continue * Sums(s)[k] + Continue * (x * p)
    <3>1. x * p \in Int
      BY <2>6, <2>7
    <3>. QED BY <1>3, <2>7, <3>1
  <2>10. Continue * Sums(s)[k] \in Int /\ Continue * (x * p) \in Int
    <3>1. x * p \in Int
      BY <2>6, <2>7
    <3>. QED BY <1>3, <2>7, <3>1
  <2>11. Sums(t)[(k + 1) + 1] = ((y % Continue) + Continue * Sums(s)[k]) + Continue * (x * p)
    BY <2>3, <2>5, <2>6, <2>8
  <2>12. Continue * Sums(s)[k + 1] = Continue * Sums(s)[k] + Continue * (x * p)
    BY <2>4, <2>9
  <2>. QED BY <1>3, <2>10, <2>11, <2>12
<1>6. T \subseteq Nat
  OBVIOUS
<1>7. T = Nat
  <2> HIDE DEF T
  <2>. QED BY <1>4, <1>5, <1>6, SetInduction
<1>8. \A k \in 0 .. Len(s) : k \in Nat /\ k <= Len(s)
  BY <1>1
<1>. QED BY <1>7, <1>8 DEF t

\* What is behind them leaves the groups where they are.
LEMMA SumsInFront ==
  ASSUME NEW b \in Seq(ByteValues), NEW c \in Seq(ByteValues), NEW n \in Nat,
         n <= Len(b), n <= Len(c), \A k \in 1 .. n : b[k] = c[k]
  PROVE  Sums(b)[n] = Sums(c)[n]
<1> DEFINE T == {k \in Nat : k <= n => Sums(b)[k] = Sums(c)[k]}
<1>1. 0 \in T
  <2>1. Sums(b)[0] = 0 /\ Sums(c)[0] = 0
    BY SumsAre
  <2>. QED BY <2>1
<1>2. ASSUME NEW k \in T PROVE k + 1 \in T
  <2>1. SUFFICES ASSUME k + 1 <= n PROVE Sums(b)[k + 1] = Sums(c)[k + 1]
    OBVIOUS
  <2>2. k + 1 \in 1 .. Len(b) /\ k + 1 \in 1 .. Len(c) /\ k + 1 \in 1 .. n /\ (k + 1) - 1 = k
    BY <2>1
  <2>3. Sums(b)[k + 1] = Sums(b)[(k + 1) - 1] + (b[k + 1] % Continue) * 2 ^ (((k + 1) - 1) * GroupBits)
    BY <2>2, SumsAre
  <2>4. Sums(c)[k + 1] = Sums(c)[(k + 1) - 1] + (c[k + 1] % Continue) * 2 ^ (((k + 1) - 1) * GroupBits)
    BY <2>2, SumsAre
  <2>5. b[k + 1] = c[k + 1] /\ Sums(b)[(k + 1) - 1] = Sums(c)[(k + 1) - 1]
    BY <2>1, <2>2
  <2>. QED BY <2>3, <2>4, <2>5
<1>3. T \subseteq Nat
  OBVIOUS
<1>4. T = Nat
  <2> HIDE DEF T
  <2>. QED BY <1>1, <1>2, <1>3, SetInduction
<1>. QED BY <1>4

\* The bytes of a value, which end where a reader can tell.
Ends(b) ==
  /\ b \in Seq(ByteValues) /\ Len(b) \in 1 .. MaxSize
  /\ b[Len(b)] < Continue /\ \A k \in 1 .. Len(b) - 1 : b[k] >= Continue

\* The groups of a value are bytes that end and add up to it.
LEMMA WrittenGroups ==
  ASSUME NEW groups \in [0 .. Range32 - 1 -> Seq(ByteValues)],
         \A u \in 0 .. Range32 - 1 : groups[u] = Written(groups, u),
         NEW u \in 0 .. Range32 - 1
  PROVE  Ends(groups[u]) /\ Sums(groups[u])[Len(groups[u])] = u
<1> DEFINE D == 0 .. Range32 - 1
           Good(b, v) == /\ b \in Seq(ByteValues) /\ Len(b) >= 1
                         /\ b[Len(b)] < Continue /\ \A k \in 1 .. Len(b) - 1 : b[k] >= Continue
                         /\ Sums(b)[Len(b)] = v
                         /\ Len(b) = 1 \/ 2 ^ ((Len(b) - 1) * GroupBits) <= v
           T == {n \in Nat : \A v \in D : v < n => Good(groups[v], v)}
<1>1. Range32 \in Nat /\ Continue \in Nat /\ Continue >= 2 /\ GroupBits \in Nat /\ GroupBits > 0
      /\ Width \in Nat
  BY Widths, WidthsAssumption
<1>2. 0 \in T
  OBVIOUS
<1>3. ASSUME NEW n \in T PROVE n + 1 \in T
  <2>1. SUFFICES ASSUME NEW v \in D, v < n + 1 PROVE Good(groups[v], v)
    OBVIOUS
  <2>2. v \in Nat /\ groups[v] \in Seq(ByteValues) /\ groups[v] = Written(groups, v)
    BY <1>1
  <2>3. CASE v < Continue
    <3>1. groups[v] = <<v>> /\ Len(<<v>>) = 1 /\ <<v>>[1] = v
      BY <2>2, <2>3 DEF Written
    <3>2. Sums(<<v>>)[1] = Sums(<<v>>)[1 - 1] + (<<v>>[1] % Continue) * 2 ^ ((1 - 1) * GroupBits)
          /\ Sums(<<v>>)[0] = 0
      <4>1. <<v>> \in Seq(ByteValues) /\ 1 \in 1 .. Len(<<v>>)
        BY <2>2, <3>1
      <4> HIDE DEF D
      <4>. QED BY <4>1, SumsAre
    <3>3. 1 - 1 = 0 /\ 0 * GroupBits = 0 /\ 2 ^ 0 = 1 /\ v % Continue = v
      <4>1. v \in ByteValues
        BY <1>1, <2>2, <2>3 DEF ByteValues
      <4>2. v % Continue = v
        BY <2>3, <4>1, Groups
      <4>. QED BY <1>1, <4>2
    <3>4. Sums(<<v>>)[1] = 0 + v * 1
      BY <3>1, <3>2, <3>3
    <3>5. Sums(<<v>>)[1] = v
      BY <2>2, <3>4
    <3>6. \A k \in 1 .. 1 - 1 : <<v>>[k] >= Continue
      OBVIOUS
    <3>. QED BY <2>2, <2>3, <3>1, <3>5, <3>6
  <2>4. CASE ~(v < Continue)
    <3> DEFINE q == v \div Continue
               r == v % Continue
               y == Continue + r
               s == groups[q]
               t == groups[v]
    <3>1. q \in Nat /\ q < v /\ q >= 1 /\ r \in Nat /\ r < Continue
          /\ v = r + Continue * q /\ y \in ByteValues
      BY <1>1, <2>2, <2>4, OtherGroups
    <3>2. t = <<y>> \o s
      BY <2>2, <2>4 DEF Written
    <3> HIDE DEF q, r
    <3>3. q \in D /\ q < n
      BY <1>1, <2>1, <2>2, <3>1
    <3>4. Good(s, q)
      BY <3>3
    <3> HIDE DEF Good
    <3>5. s \in Seq(ByteValues) /\ Len(s) \in Nat /\ Len(s) >= 1
          /\ s[Len(s)] < Continue /\ Sums(s)[Len(s)] = q
      BY <3>4 DEF Good
    <3> HIDE DEF s, t, y
    <3>6. Len(t) = Len(s) + 1 /\ t[1] = y /\ \A k \in 1 .. Len(s) : t[k + 1] = s[k]
      BY <3>1, <3>2, <3>5
    <3>7. t[Len(t)] < Continue
      <4>1. Len(s) \in 1 .. Len(s)
        BY <3>5
      <4>. QED BY <3>5, <3>6, <4>1
    <3>8. ASSUME NEW k \in 1 .. Len(t) - 1 PROVE t[k] >= Continue
      <4>1. CASE k = 1
        BY <1>1, <3>1, <3>6, <4>1 DEF y
      <4>2. CASE k # 1
        <5>1. k - 1 \in 1 .. Len(s) - 1 /\ k - 1 \in 1 .. Len(s) /\ (k - 1) + 1 = k
          BY <3>5, <3>6, <4>2
        <5>2. t[(k - 1) + 1] = s[k - 1] /\ s[k - 1] >= Continue
          BY <3>4, <3>6, <5>1 DEF Good
        <5>. QED BY <5>1, <5>2
      <4>. QED BY <4>1, <4>2
    <3>9. Sums(t)[Len(t)] = v
      <4>1. y % Continue = r
        <5>1. y >= Continue /\ y - Continue = r
          BY <1>1, <3>1 DEF y
        <5>. QED BY <3>1, <5>1, Groups
      <4>2. Sums(t)[Len(s) + 1] = (y % Continue) + Continue * Sums(s)[Len(s)]
        <5>1. Len(s) \in 0 .. Len(s)
          BY <3>5
        <5>. QED BY <3>1, <3>2, <3>5, <5>1, SumsBehind
      <4>. QED BY <3>1, <3>5, <3>6, <4>1, <4>2
    <3>10. 2 ^ ((Len(t) - 1) * GroupBits) <= v
      <4> DEFINE p == 2 ^ ((Len(s) - 1) * GroupBits)
      <4>1. p \in Nat /\ 2 ^ ((Len(t) - 1) * GroupBits) = p * Continue
        <5>1. (Len(s) - 1) * GroupBits \in Nat /\ GroupBits \in Nat
              /\ (Len(s) - 1) * GroupBits + GroupBits = (Len(t) - 1) * GroupBits
          <6>1. ASSUME NEW l \in Nat, l >= 1
                PROVE  (l - 1) * GroupBits \in Nat
                       /\ (l - 1) * GroupBits + GroupBits = ((l + 1) - 1) * GroupBits
            BY <1>1, <6>1
          <6>. QED BY <1>1, <3>5, <3>6, <6>1
        <5>. QED BY <5>1, PowersAdd DEF Continue
      <4>2. p <= q
        <5>1. CASE Len(s) = 1
          <6>1. (1 - 1) * GroupBits = 0 /\ 2 ^ 0 = 1
            BY <1>1
          <6>2. p = 1
            BY <5>1, <6>1
          <6>. QED BY <3>1, <6>2
        <5>2. CASE Len(s) # 1
          BY <3>4, <5>2 DEF Good
        <5>. QED BY <5>1, <5>2
      <4> HIDE DEF p
      <4>3. p * Continue <= q * Continue
        BY <1>1, <3>1, <4>1, <4>2
      <4>4. q * Continue <= v
        <5>1. q * Continue = Continue * q /\ Continue * q \in Int
          BY <1>1, <3>1
        <5>. QED BY <3>1, <5>1
      <4>5. p * Continue \in Int /\ q * Continue \in Int
        BY <1>1, <3>1, <4>1
      <4>. QED BY <2>2, <4>1, <4>3, <4>4, <4>5
    <3>11. t \in Seq(ByteValues) /\ Len(t) >= 1
      BY <2>2, <3>5, <3>6 DEF t
    <3>. QED BY <3>7, <3>8, <3>9, <3>10, <3>11 DEF Good, t
  <2>. QED BY <2>3, <2>4
<1>4. T \subseteq Nat
  OBVIOUS
<1>5. Good(groups[u], u)
  <2>1. T = Nat
    <3> HIDE DEF T
    <3>. QED BY <1>2, <1>3, <1>4, SetInduction
  <2>2. u + 1 \in T /\ u < u + 1 /\ u \in D
    <3>1. u + 1 \in Nat /\ u < u + 1
      BY <1>1
    <3> HIDE DEF T
    <3>. QED BY <2>1, <3>1
  <2> HIDE DEF Good
  <2>. QED BY <2>2
<1> DEFINE b == groups[u]
           n == Len(b)
<1>6. n \in Nat /\ n >= 1 /\ u \in Nat /\ u < Range32
  BY <1>1, <1>5
<1>7. n <= MaxSize
  <2>1. CASE n = 1
    BY <2>1, MaxSizeIs
  <2>2. CASE n # 1
    <3> HIDE DEF b, n
    <3>1. n - 1 \in Nat /\ (n - 1) * GroupBits \in Nat
      BY <1>1, <1>6
    <3>2. 2 ^ ((n - 1) * GroupBits) < Range32
      <4>1. 2 ^ ((n - 1) * GroupBits) <= u /\ 2 ^ ((n - 1) * GroupBits) \in Nat
        BY <1>5, <2>2, <3>1, PowersAdd DEF b, n
      <4>. QED BY <1>1, <1>6, <4>1
    <3>3. ~((n - 1) * GroupBits >= Width)
      <4>1. SUFFICES ASSUME (n - 1) * GroupBits >= Width PROVE FALSE
        OBVIOUS
      <4> DEFINE a == (n - 1) * GroupBits
                 d == a - Width
      <4>2. d \in Nat /\ Width + d = a
        BY <1>1, <3>1, <4>1
      <4> HIDE DEF d, a
      <4>3. 2 ^ a = Range32 * 2 ^ d /\ 2 ^ d \in Nat \ {0}
        BY <1>1, <4>2, PowersAdd DEF Range32
      <4>4. \A x \in Nat \ {0} : Range32 * x >= Range32
        BY <1>1
      <4>5. 2 ^ a >= Range32
        BY <4>3, <4>4
      <4>6. 2 ^ a < Range32 /\ 2 ^ a \in Nat
        BY <1>1, <3>1, <3>2, PowersAdd DEF a
      <4>. QED BY <1>1, <4>5, <4>6
    <3>4. ~(n - 1 >= MaxSize)
      BY <3>1, <3>3, MaxSizeIs
    <3>. QED BY <1>6, <3>4, MaxSizeIs
  <2>. QED BY <2>1, <2>2
<1>8. n \in 1 .. MaxSize
  <2> HIDE DEF n
  <2>. QED BY <1>6, <1>7, MaxSizeIs
<1>. QED BY <1>5, <1>8 DEF Ends

\* The conversions undo each other.
LEMMA Signed ==
  ASSUME NEW value \in Int32
  PROVE  ToUnsigned(value) \in 0 .. Range32 - 1 /\ ToSigned(ToUnsigned(value)) = value
<1> DEFINE h == Range32 \div 2
           u == value % Range32
<1>1. h \in Nat /\ h >= 1 /\ Range32 = 2 * h /\ Range32 \in Nat \ {0}
  BY Widths
<1>2. value \in Int /\ value >= -h /\ value < h
  <2>1. value \in (-h) .. (h - 1)
    BY DEF Int32
  <2> HIDE DEF h
  <2>. QED BY <1>1, <2>1
<1>3. u = IF value >= 0 THEN value ELSE value + Range32
  <2> HIDE DEF h
  <2>1. CASE value >= 0
    <3>1. value = 0 * Range32 + value /\ value \in 0 .. Range32 - 1
      BY <1>1, <1>2, <2>1
    <3>. QED BY <1>1, <1>2, <2>1, <3>1, Division
  <2>2. CASE ~(value >= 0)
    <3>1. value = (-1) * Range32 + (value + Range32) /\ value + Range32 \in 0 .. Range32 - 1
      BY <1>1, <1>2, <2>2
    <3>2. -1 \in Int
      OBVIOUS
    <3>3. value % Range32 = value + Range32
      BY <1>1, <1>2, <3>1, <3>2, Division
    <3>. QED BY <2>2, <3>3
  <2>. QED BY <2>1, <2>2
<1>4. u % Range32 = u /\ u \in 0 .. Range32 - 1
  BY <1>1, <1>2, CutAgain
<1>5. IF u < h THEN u = value ELSE u - Range32 = value
  <2> HIDE DEF h, u
  <2>. QED BY <1>1, <1>2, <1>3
<1> HIDE DEF u
<1>6. ToSigned(u) = IF u % Range32 < h THEN u % Range32 ELSE (u % Range32) - Range32
  BY DEF ToSigned
<1>7. ToSigned(u) = value
  <2> HIDE DEF h
  <2>. QED BY <1>4, <1>5, <1>6
<1>. QED BY <1>4, <1>7 DEF ToUnsigned, u

\* The bytes AppendVarInt writes for a value end, add up to it, and read as it.
LEMMA AppendVarIntEnds ==
  ASSUME NEW value \in Int32
  PROVE  Ends(AppendVarInt(<<>>, value)) /\
         ToSigned(Sums(AppendVarInt(<<>>, value))[Len(AppendVarInt(<<>>, value))]) = value
<1>1. PICK groups \in [0 .. Range32 - 1 -> Seq(ByteValues)] :
        /\ \A u \in 0 .. Range32 - 1 : groups[u] = Written(groups, u)
        /\ \A dst, v : AppendVarInt(dst, v) = dst \o groups[ToUnsigned(v)]
  BY AppendVarIntGroups
<1>2. ToUnsigned(value) \in 0 .. Range32 - 1
  BY Signed
<1> DEFINE b == groups[ToUnsigned(value)]
<1>3. Ends(b) /\ Sums(b)[Len(b)] = ToUnsigned(value)
  BY <1>1, <1>2, WrittenGroups
<1>4. AppendVarInt(<<>>, value) = b
  <2>1. AppendVarInt(<<>>, value) = <<>> \o b
    BY <1>1
  <2>2. b \in Seq(ByteValues)
    BY <1>3 DEF Ends
  <2> HIDE DEF b
  <2>. QED BY <2>1, <2>2
<1> HIDE DEF b
<1>. QED BY <1>3, <1>4, Signed

\* Bytes that end are read to their end, whatever is behind them.
LEMMA EndsRead ==
  ASSUME NEW b, Ends(b), NEW behind \in Seq(ByteValues)
  PROVE  readVarInt(b \o behind) = Result(ToSigned(Sums(b)[Len(b)]), Len(b), "none")
<1> DEFINE c == b \o behind
           n == Len(b)
<1>1. b \in Seq(ByteValues) /\ n \in 1 .. MaxSize
  BY DEF Ends
<1>2. c \in Seq(ByteValues) /\ Len(c) = n + Len(behind) /\ \A k \in 1 .. n : c[k] = b[k]
  BY <1>1
<1>3. n \in Nat /\ n >= 1 /\ n <= MaxSize /\ Len(behind) \in Nat
  BY <1>1, MaxSizeIs
<1>4. n \in 1 .. Len(c) /\ n <= Len(c) /\ n <= Len(b) /\ n \in 1 .. n
  <2>1. Len(c) = n + Len(behind) /\ n = Len(b)
    BY <1>2
  <2> HIDE DEF c, n
  <2>. QED BY <1>3, <2>1
<1>5. c[n] < Continue /\ \A k \in 1 .. n - 1 : c[k] >= Continue
  <2>1. \A k \in 1 .. n - 1 : k \in 1 .. n
    BY <1>3
  <2>2. b[n] < Continue /\ \A k \in 1 .. n - 1 : b[k] >= Continue
    BY DEF Ends
  <2> HIDE DEF c, n
  <2>. QED BY <1>2, <1>4, <2>1, <2>2
<1>6. readVarInt(c) = Result(ToSigned(Sums(c)[n]), n, "none")
  <2> HIDE DEF c, n
  <2>. QED BY <1>2, <1>3, <1>4, <1>5, ReadsAnEnd
<1>7. Sums(c)[n] = Sums(b)[n]
  <2> HIDE DEF c, n
  <2>. QED BY <1>1, <1>2, <1>3, <1>4, SumsInFront
<1>. QED BY <1>6, <1>7

\* Of bytes that end, fewer are still arriving.
LEMMA EndsMissing ==
  ASSUME NEW b, Ends(b), NEW p \in Seq(ByteValues), Len(p) < Len(b),
         \A k \in 1 .. Len(p) : p[k] = b[k]
  PROVE  readVarInt(p) = Result(0, Len(p), "EOF")
<1>1. b \in Seq(ByteValues) /\ Len(b) \in 1 .. MaxSize /\ MaxSize \in Nat
  BY MaxSizeIs DEF Ends
<1>2. \A k \in 1 .. Len(p) : p[k] >= Continue
  <2>1. \A k \in 1 .. Len(p) : k \in 1 .. Len(b) - 1
    BY <1>1
  <2>. QED BY <2>1 DEF Ends
<1>3. ~(Len(p) >= MaxSize)
  BY <1>1
<1>. QED BY <1>2, <1>3, ReadsNoEnd

\* What is written reads back as itself.
LEMMA WrittenReadsBack ==
  ASSUME NEW behind \in Seq(ByteValues)
  PROVE  ReadsBack(behind)
<1>1. ASSUME NEW value \in Int32
      PROVE  readVarInt(AppendVarInt(<<>>, value) \o behind)
               = Result(value, Len(AppendVarInt(<<>>, value)), "none")
  BY AppendVarIntEnds, EndsRead
<1>. QED BY <1>1 DEF ReadsBack

\* What a reader returns, and what it has read when it wants more.
LEMMA readVarIntType ==
  ASSUME NEW b \in Seq(ByteValues)
  PROVE  \E v \in Int, n \in 0 .. Len(b), err \in {"none", "EOF", "VarInt too big"} :
           /\ readVarInt(b) = Result(v, n, err) /\ n <= MaxSize
           /\ err = "EOF" => Len(b) < MaxSize
<1>1. \A u \in Int : ToSigned(u) \in Int
  <2>1. SUFFICES ASSUME NEW u \in Int PROVE ToSigned(u) \in Int
    OBVIOUS
  <2> DEFINE r == u % Range32
  <2>2. Range32 \in Nat \ {0} /\ r \in Int
    <3>1. Range32 \in Nat \ {0}
      BY Widths
    <3>. QED BY <3>1
  <2>3. ToSigned(u) = IF r < Range32 \div 2 THEN r ELSE r - Range32
    BY DEF ToSigned
  <2> HIDE DEF r
  <2>. QED BY <2>2, <2>3
<1>2. MaxSize \in Nat /\ Len(b) \in Nat
  BY MaxSizeIs
<1>3. CASE \E j \in 1 .. Len(b) : j <= MaxSize /\ b[j] < Continue
  <2>1. PICK n \in 1 .. Len(b) : /\ n <= MaxSize /\ b[n] < Continue
                                 /\ \A k \in 1 .. n - 1 : b[k] >= Continue
    BY <1>3, FirstEnd
  <2>2. readVarInt(b) = Result(ToSigned(Sums(b)[n]), n, "none")
    BY <2>1, ReadsAnEnd
  <2>3. Sums(b)[n] \in Int
    BY SumsAre
  <2>4. ToSigned(Sums(b)[n]) \in Int
    BY <1>1, <2>3
  <2>5. n \in 0 .. Len(b) /\ n <= MaxSize
    BY <2>1
  <2>. QED BY <2>2, <2>4, <2>5
<1>4. CASE ~\E j \in 1 .. Len(b) : j <= MaxSize /\ b[j] < Continue
  <2>1. ASSUME NEW k \in 1 .. Len(b), k <= MaxSize PROVE b[k] >= Continue
    <3>1. b[k] \in Nat /\ ~(b[k] < Continue)
      BY <1>4, <2>1, Groups
    <3>. QED BY <3>1, Widths
  <2>2. readVarInt(b) = IF Len(b) >= MaxSize THEN Result(0, MaxSize, "VarInt too big")
                        ELSE Result(0, Len(b), "EOF")
    BY <2>1, ReadsNoEnd
  <2>3. CASE Len(b) >= MaxSize
    <3> DEFINE n == MaxSize
    <3>1. n \in 0 .. Len(b) /\ n <= MaxSize
      BY <1>2, <2>3
    <3>2. readVarInt(b) = Result(0, n, "VarInt too big") /\ "VarInt too big" # "EOF"
      BY <2>2, <2>3
    <3> HIDE DEF n
    <3>3. 0 \in Int /\ "VarInt too big" \in {"none", "EOF", "VarInt too big"}
      OBVIOUS
    <3>. QED BY <3>1, <3>2, <3>3, Zenon
  <2>4. CASE ~(Len(b) >= MaxSize)
    <3> DEFINE n == Len(b)
    <3>1. n \in 0 .. Len(b) /\ n <= MaxSize /\ Len(b) < MaxSize
      BY <1>2, <2>4
    <3>2. readVarInt(b) = Result(0, n, "EOF")
      BY <2>2, <2>4
    <3> HIDE DEF n
    <3>3. 0 \in Int /\ "EOF" \in {"none", "EOF", "VarInt too big"}
      OBVIOUS
    <3>. QED BY <3>1, <3>2, <3>3, Zenon
  <2>. QED BY <2>3, <2>4
<1>. QED BY <1>3, <1>4
===============================================================================
