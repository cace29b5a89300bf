SPECIFICATION Spec
CONSTANTS
  ClientIds <- Numbers
  Uuids = {1, 2}
  Noted1_7_6 <- TheirAccounts
  Accounts <- TwoPlayers
  Capacity = 2
  IntMax = 3
  Stands <- NearAndFar
  Clocks <- AroundTheWrap
  Save <- SavedWorld
  Built <- SmallWorld
  SpawnBlock <- Spawn
  KeySets <- SomeKeys
INVARIANTS ReadAsWritten HeardAsMeant NumbersAgree
  KeepAliveAnswered Known BlocksWhereTheyWere LightWhereItWas HeightsKept
PROPERTIES RefusedForCause
