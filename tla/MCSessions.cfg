SPECIFICATION Spec
CONSTANTS
  Logins = {l1, l2}
  Visits = {v1}
  Proofs = {r1, r2}
  None = None
  Ttl = 2
  OtpTtl = 1
  ProofTtl = 2
  MaxAttempts = 2
  MaxNow = 2
  MaxIds = 4
  MaxVersion = 1
INVARIANTS SessionsAreCurrent CodesGrantOnce ActivityIsOwn
PROPERTIES TakeoverConfirmed
CHECK_DEADLOCK FALSE
