SPECIFICATION DeliverySpec
CONSTANTS
  NULL = NULL
  Workers = {w1, w2}
  FactIds = {f1, f2, f3, f4}
  Operators = {op1}
  Orgs = {"acme"}
  InitialOrgs = {"acme"}
  Users = {"rep1", "office1"}
  OAuthIds = {"murray"}
  Keys = {"k1", "k2"}
  Sources = {"murray_app", "claude"}
  Raws <- NoteRaws
  ReadLimit <- Limit2
  InitialMembers <- Team
  Requests <- Notes
  Batches <- Notes
  Commands <- NoCommands
  MaxCalls = 6
  MaxCommands = 0
  FaultySends <- Faults
  DB_TOKEN_TTL = 7
CHECK_DEADLOCK FALSE
INVARIANTS AckedExactlyOnce
PROPERTIES Delivered CallsTerminate
