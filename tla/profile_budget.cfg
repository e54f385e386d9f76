SPECIFICATION Spec
CONSTANTS
  Payloads <- WholeTokenPayloads
  MaxFacts = 5
  Reviewers = {"office"}
  Seats <- ThreeSeats
  Reader <- RepReader
  Limits <- SomeLimits
  PENDING_REVIEW_LIMIT = 20
  PROFILE_FACT_CAP = 30
  PROFILE_TOKEN_BUDGET = 400
INVARIANTS ProfileWithinBudget
