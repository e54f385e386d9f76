SPECIFICATION Spec
CONSTANTS
  NULL = NULL
  Workers = {w1, w2}
  FactIds = {f1, f2, f3, f4}
  Operators = {op1}
  Orgs = {"acme", "beta"}
  InitialOrgs = {"acme"}
  Users = {"rep1", "office1", "owner2"}
  OAuthIds = {"murray"}
  Keys = {"k1"}
  Sources = {"murray_app", "claude"}
  Raws <- AllRaws
  ReadLimit <- Limit2
  InitialMembers <- Team
  Requests <- WriteRequests
  Commands <- WriteCommands
  MaxCalls = 3
  MaxCommands = 3
SYMMETRY WorkerFactSymmetry
CHECK_DEADLOCK FALSE
INVARIANTS TypeOK DedupeKeyUnique BatchIsStored AnswerIsAudited
           AuditWithinOrg SupersededWithinOrg
PROPERTIES StampedByMember
