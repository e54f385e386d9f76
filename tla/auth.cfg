SPECIFICATION Spec
CONSTANTS
  Processes = {p1}
  Kids = {k1, k2, k3}
  FirstKid = k1
  Tokens <- SomeTokens
  Environments <- WithOrWithoutApi
  MaxCachedKeys = 2
  Lifespan = 1
  MaxTime = 3
INVARIANTS RotationIsSeamless KnownKeysSurviveOutage AcceptedKeys
