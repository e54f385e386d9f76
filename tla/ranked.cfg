SPECIFICATION Spec
CONSTANTS
  Payloads <- MixedPayloads
  MaxFacts = 3
  Reviewers = {"owner", "office", "rep"}
  Seats <- ThreeSeats
  Reader <- OfficeReader
  Limits <- SomeLimits
  PENDING_REVIEW_LIMIT = 2
  PROFILE_FACT_CAP = 2
  PROFILE_TOKEN_BUDGET = 92
INVARIANTS ProfileNearBudget
PROPERTIES QueueDrains ProfileIsPacked
