CONSTANTS
  Emails = {e1, e2}
  Tokens = {t1, t2, t3, t4}
  Requests = {r1, r2, r3, r4}
  MaxFaults = 1
  None = None
  Keys = {k1}
  Calls = {c1, c2, c3}
  MaxTime = 3
  NoKey = NoKey
SPECIFICATION CredentialsSpec
SYMMETRY CredentialSymmetry
INVARIANTS
  RotatedOnce
  OneRegistration
  OnlyLostRegistrationsFail
  RefusedTokenIsDead
  OneRevocation
PROPERTIES
  OnlyActiveTokensRotate
  RevocationIsImmediate
  RevokedRowIsFrozen
CHECK_DEADLOCK FALSE
