SPECIFICATION Spec
CONSTANTS
  a = a
  b = b
  j = j
  s = s
  u = u
  e = e
  Node = {a, b, j}
  Outcome = {}
  Caller = {c1, c2}
  Appends = {b}
  OnePerTask = TRUE
  EndNode = NoNode
  NoNode = NoNode
  NoOutcome = NoOutcome
  Any = Any
  WfRow = WfRow
  Free = Free
  DependsOn <- MCDependsOn
  Config <- MCConfig
  Rank <- MCRank
INVARIANT CompletionPropagates
