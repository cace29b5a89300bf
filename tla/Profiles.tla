-------------------------------- MODULE Profiles --------------------------------
(* What the step to 1.7.6 remembers of the players it listed: the cache of    *)
(* names and skins by uuid that the registry shares between all connections,  *)
(* ProfileCache1_7_6 of src/transformers/minecraft_1_8.go. Each put also goes *)
(* behind the others on a ring, and past the capacity the ring forgets from   *)
(* its front, with the profile unless the same uuid is further on.            *)
EXTENDS Naturals, Sequences

CONSTANTS
  Uuids,
  Noted1_7_6,   \* what is remembered of a player
  Capacity      \* profileCacheCapacity1_7_6

ASSUME CapacityAssumption == Capacity \in Nat \ {0}

VARIABLES profiles, order
cache == <<profiles, order>>

CacheInit ==
  /\ profiles = <<>>
  /\ order = <<>>

\* The uuids on a ring.
On(ring) == {ring[i] : i \in DOMAIN ring}

\* Mutant: a uuid that leaves the ring is forgotten, though it is on it again.
putForgetsListedAgain(uuid, profile) ==
  LET remembered == [u \in DOMAIN profiles \cup {uuid} |->
                       IF u = uuid THEN profile ELSE profiles[u]]
      ring == Append(order, uuid)
  IN  IF Len(ring) <= Capacity
        THEN profiles' = remembered /\ order' = ring
      ELSE /\ order' = Tail(ring)
           /\ profiles' = [u \in DOMAIN remembered \ {Head(ring)} |-> remembered[u]]

(* put. The ring was within the capacity, so one spot is all it forgets.      *)
put(uuid, profile) ==
  LET remembered == [u \in DOMAIN profiles \cup {uuid} |->
                       IF u = uuid THEN profile ELSE profiles[u]]
      ring == Append(order, uuid)
      oldest == Head(ring)
      stillInRing == oldest \in On(Tail(ring))
  IN  IF Len(ring) <= Capacity
        THEN profiles' = remembered /\ order' = ring
      ELSE /\ order' = Tail(ring)
           /\ profiles' = IF stillInRing THEN remembered
                          ELSE [u \in DOMAIN remembered \ {oldest} |-> remembered[u]]

CacheNext == \E uuid \in Uuids, profile \in Noted1_7_6 : put(uuid, profile)

CacheSpec == CacheInit /\ [][CacheNext]_cache

-------------------------------------------------------------------------------
(* What is remembered is what the ring still names, no more and no less, and  *)
(* the ring stays within the capacity: no profile outlives its last spot, and *)
(* none goes while it has a spot left (the stillInRing pass of put).          *)
Known ==
  /\ DOMAIN profiles = On(order)
  /\ Len(order) <= Capacity
===============================================================================
