----------------------------- MODULE ProfilesProofs -----------------------------
(* The profile cache keeps exactly what its ring names, whatever the players  *)
(* and however small the ring.                                                *)
EXTENDS Profiles, TLAPS

CacheType ==
  /\ order \in Seq(Uuids)
  /\ DOMAIN profiles \subseteq Uuids

CacheInv == CacheType /\ Known

\* A ring with one more uuid behind it names that uuid too.
LEMMA OnAppend ==
  ASSUME NEW ring \in Seq(Uuids), NEW uuid \in Uuids
  PROVE  On(Append(ring, uuid)) = On(ring) \cup {uuid}
<1> DEFINE longer == Append(ring, uuid)
<1>1. DOMAIN longer = DOMAIN ring \cup {Len(ring) + 1} /\ Len(ring) \in Nat
  OBVIOUS
<1>2. \A i \in DOMAIN ring : longer[i] = ring[i]
  OBVIOUS
<1>3. longer[Len(ring) + 1] = uuid
  OBVIOUS
<1> QED BY <1>1, <1>2, <1>3 DEF On

\* A ring names its head and what is behind it.
LEMMA OnTail ==
  ASSUME NEW ring \in Seq(Uuids), ring # <<>>
  PROVE  On(ring) = {Head(ring)} \cup On(Tail(ring))
<1>1. DOMAIN ring = 1 .. Len(ring) /\ Len(ring) \in Nat \ {0} /\ Head(ring) = ring[1]
  OBVIOUS
<1>2. DOMAIN Tail(ring) = 1 .. Len(ring) - 1
  OBVIOUS
<1>3. \A i \in 1 .. Len(ring) - 1 : Tail(ring)[i] = ring[i + 1]
  OBVIOUS
<1>4. \A i \in DOMAIN ring : i = 1 \/ (i - 1 \in 1 .. Len(ring) - 1 /\ Tail(ring)[i - 1] = ring[i])
  BY <1>1, <1>3
<1>5. \A i \in 1 .. Len(ring) - 1 : i + 1 \in DOMAIN ring
  BY <1>1
<1>6. On(ring) \subseteq {Head(ring)} \cup On(Tail(ring))
  BY <1>1, <1>2, <1>4 DEF On
<1>7. {Head(ring)} \cup On(Tail(ring)) \subseteq On(ring)
  BY <1>1, <1>2, <1>3, <1>5 DEF On
<1> QED BY <1>6, <1>7

\* A put keeps the profiles and the ring in step.
LEMMA PutKnown ==
  ASSUME CacheInv, NEW uuid \in Uuids, NEW profile, put(uuid, profile)
  PROVE  CacheInv'
<1> DEFINE remembered == [u \in DOMAIN profiles \cup {uuid} |->
                            IF u = uuid THEN profile ELSE profiles[u]]
           ring == Append(order, uuid)
<1>1. /\ ring \in Seq(Uuids) /\ ring # <<>>
      /\ Len(ring) = Len(order) + 1 /\ Len(order) \in Nat
  BY DEF CacheInv, CacheType
<1>2. DOMAIN remembered = On(ring)
  <2>1. On(ring) = On(order) \cup {uuid}
    BY OnAppend DEF CacheInv, CacheType
  <2> QED BY <2>1 DEF CacheInv, Known
<1>3. DOMAIN remembered \subseteq Uuids
  BY DEF CacheInv, CacheType
<1>4. CASE Len(ring) <= Capacity
  <2>1. profiles' = remembered /\ order' = ring
    BY <1>4 DEF put
  <2> QED BY <2>1, <1>1, <1>2, <1>3, <1>4 DEF CacheInv, CacheType, Known
<1>5. CASE ~(Len(ring) <= Capacity)
  <2> DEFINE oldest == Head(ring)
  <2>1. order' = Tail(ring)
    BY <1>5 DEF put
  <2>2. On(ring) = {oldest} \cup On(Tail(ring))
    BY <1>1, OnTail
  <2>3. Tail(ring) \in Seq(Uuids) /\ Len(Tail(ring)) = Len(order)
    BY <1>1
  <2>4. DOMAIN profiles' = On(Tail(ring))
    <3>1. CASE oldest \in On(Tail(ring))
      <4>1. profiles' = remembered
        BY <1>5, <3>1 DEF put
      <4>2. On(ring) = On(Tail(ring))
        BY <2>2, <3>1
      <4> QED BY <4>1, <4>2, <1>2
    <3>2. CASE oldest \notin On(Tail(ring))
      <4>1. profiles' = [u \in DOMAIN remembered \ {oldest} |-> remembered[u]]
        BY <1>5, <3>2 DEF put
      <4>2. DOMAIN profiles' = On(ring) \ {oldest}
        BY <4>1, <1>2
      <4> QED BY <4>2, <2>2, <3>2
    <3> QED BY <3>1, <3>2
  <2>5. Len(order) <= Capacity
    BY DEF CacheInv, Known
  <2>6. On(order)' = On(Tail(ring))
    BY <2>1 DEF On
  <2>7. Known'
    BY <2>1, <2>3, <2>4, <2>5, <2>6 DEF Known
  <2>8. CacheType'
    BY <2>1, <2>2, <2>3, <2>4, <1>2, <1>3 DEF CacheType
  <2> QED BY <2>7, <2>8 DEF CacheInv
<1> QED BY <1>4, <1>5

(* The cache remembers exactly the players its ring names, and the ring is    *)
(* never longer than the capacity.                                            *)
THEOREM CacheKnown == CacheSpec => []Known
<1>1. CacheInit => CacheInv
  <2> SUFFICES ASSUME CacheInit PROVE CacheInv
    OBVIOUS
  <2>1. order = <<>> /\ profiles = <<>>
    BY DEF CacheInit
  <2>2. DOMAIN profiles = {} /\ On(order) = {} /\ Len(order) = 0
    BY <2>1 DEF On
  <2> QED BY <2>1, <2>2, CapacityAssumption DEF CacheInv, CacheType, Known
<1>2. CacheInv /\ [CacheNext]_cache => CacheInv'
  <2>1. CASE CacheNext
    BY <2>1, PutKnown DEF CacheNext
  <2>2. CASE UNCHANGED cache
    BY <2>2 DEF cache, CacheInv, CacheType, Known, On
  <2> QED BY <2>1, <2>2
<1>3. CacheInv => Known
  BY DEF CacheInv
<1> QED BY <1>1, <1>2, <1>3, PTL DEF CacheSpec
===============================================================================
