SPECIFICATION Spec
SYMMETRY Interchangeable
CONSTANTS
  r1 = r1
  r2 = r2
  h1 = h1
  Ref = {r1, r2}
  Hook = {h1}
  TTL = 1
  Threshold = 1
  MaxTime = 4
  NoTime = NoTime
  NoSession = NoSession
  NoRow = NoRow
PROPERTY RotationSparesPayment
