SPECIFICATION Spec
SYMMETRY Interchangeable
CONSTANTS
  r1 = r1
  r2 = r2
  r3 = r3
  h1 = h1
  Ref = {r1, r2, r3}
  Hook = {h1}
  TTL = 1
  Threshold = 1
  MaxTime = 3
  NoTime = NoTime
  NoSession = NoSession
  NoRow = NoRow
INVARIANTS
  TypeOK
  CheckoutFirst
PROPERTIES
  HistoryAppendOnly
  SuccessIsFinal
