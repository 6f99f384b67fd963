SPECIFICATION Spec
CONSTANTS
  Horizon = 7
  KeyHorizon = 4
  FileHorizon = 2
  Person = {"p1", "p2"}
  t1 = t1
  Request = {t1, t2}
  UserId = {u1, u2}
  NoId = NoId
  registration = registration
  licence = licence
  permit = permit
  Template <- MCTemplate
  DependsOn <- MCDependsOn
  MaxRows = 4
  Kid = {"k1", "k2"}
  Broken = {}
  Token <- MCToken
  Verifier = {v1, v2}
  TTL = 2
  FetchTime = 1
  Leeway = 1
  Never = Never
  MaxRotations = 2
  NoToken = NoToken
  Unlocked = Unlocked
  Caller = {c1, c2, c3}
  Lifetimes = {3, 4}
  Buffer = 2
  TokenTimeout = 1
  CallTimeout = 1
  MaxBackoff = 1
  MaxRetries = 1
  Free = Free
  Put = {w1, w2}
  Get = {g1}
  Inode = {i1, i2}
  PresignTTL = 1
  NoFile = NoFile
  Zero = Zero
INVARIANTS TypeOK OneIdentity ReadyStarts DependenciesMet KnownKeyFound UsableToken AcknowledgedServed
PROPERTIES RecentlyServed
CHECK_DEADLOCK FALSE
SYMMETRY Symmetry
VIEW View
