SPECIFICATION Spec
CONSTANTS
  a = a
  b = b
  j = j
  s = s
  u = u
  e = e
  Node = {a, b, j, s, u, e}
  Outcome = {}
  Caller = {c1, c2}
  Appends = {b, s}
  OnePerTask = TRUE
  EndNode = e
  NoNode = NoNode
  NoOutcome = NoOutcome
  Any = Any
  WfRow = WfRow
  Free = Free
  DependsOn <- MCDependsOn
  Config <- MCConfig
  Rank <- MCRank
INVARIANTS
  TypeOK
  OpenedOnce
  NoDeadlock
PROPERTY KeepsPromise
