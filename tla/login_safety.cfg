SPECIFICATION Spec
CONSTANTS
  l1 = l1
  v1 = v1
  v2 = v2
  v3 = v3
  p1 = p1
  p2 = p2
  None = None
  Logins <- OneLogin
  Verifies <- ThreeVerifies
  Replicas <- TwoReplicas
  TokenTTL = 2
  SessionTTL = 1
  MaxSkew = 1
  MaxTime = 4
CHECK_DEADLOCK FALSE
SYMMETRY Symmetry
INVARIANTS
  IInv
  OneSessionPerToken
  ProductionSessionsNeedMail
  RejectionIsExplained
  AuthorityExpires
