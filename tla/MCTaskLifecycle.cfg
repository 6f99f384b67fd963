SPECIFICATION Spec
VIEW View
CONSTRAINT OneAtWork
CONSTANTS
  c1 = c1
  c2 = c2
  Type = {"SIMPLE_FORM", "WAIT_FOR_EVENT", "PAYMENT"}
  Caller = {c1, c2}
  Box = {x1, x2, x3}
  Overlap <- MCOverlap
  Nobody = Nobody
  NoBox = NoBox
  NoRow = NoRow
INVARIANTS
  TypeOK
  StoreAgrees
  ReportFollowsStore
PROPERTY CallsReturn
