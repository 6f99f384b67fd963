SPECIFICATION Spec
CONSTANTS
  x = x
  y = y
  z = z
  Caller = {c1, c2}
  Code = {x, y, z}
  Supported <- MCSupported
  n1 = n1
  n2 = n2
  n3 = n3
  Node <- MCNode
  Route <- MCRoute
  Attempt = {h1, h2}
  MaxCrashes = 1
  NoCode = NoCode
  Free = Free
INVARIANTS
  TypeOK
  ItemIsRun
  FinishedTruthful
PROPERTIES
  FinishedIsFinal
  CompletionArrives
\* After FINISHED, or a completion report that was logged and dropped, nothing moves.
CHECK_DEADLOCK FALSE
