SPECIFICATION Spec
VIEW View
SYMMETRY Interchangeable
CONSTANTS
  c1 = c1
  c2 = c2
  Type = {"WAIT_FOR_EVENT"}
  Caller = {c1, c2}
  Box = {x1, x2, x3}
  Overlap <- MCOverlap
  Nobody = Nobody
  NoBox = NoBox
  NoRow = NoRow
INVARIANTS
  OneContainer
