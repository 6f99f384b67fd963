SPECIFICATION Spec
CONSTANTS
  a = a
  b = b
  j = j
  k = k
  d = d
  e = e
  ok = ok
  Node = {a, b, j, k, d, e}
  Outcome = {ok}
  Caller = {c1, c2}
  EndNode = e
  NoNode = NoNode
  NoOutcome = NoOutcome
  Any = Any
  DependsOn <- MCDependsOn
  Config <- MCConfig
INVARIANTS
  TypeOK
  UnlockJustified
  NoMissedUnlock
  StatusTruthful
  TaskOncePerNode
  OpenNodesAccounted
PROPERTIES
  KeepsPromise
  ReadyRegistered
\* After an aborted start or a crash (handlerMap is memory only) nothing moves.
CHECK_DEADLOCK FALSE
