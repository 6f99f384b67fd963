SPECIFICATION Spec
SYMMETRY Interchangeable
VIEW View
CONSTANTS
  d1 = d1
  d2 = d2
  n1 = n1
  n2 = n2
  o1 = o1
  o2 = o2
  Data = {d1, d2}
  Note = {n1, n2}
  Officer = {o1, o2}
  Retries = 1
  Strays = 1
  Callbacks = 2
  Trader = Trader
  Nobody = Nobody
  NoData = NoData
  NoApp = NoApp
  NoVerdict = NoVerdict
INVARIANTS
  TypeOK
  VerdictAgrees
  AgencyHasApplication
  AgencyHoldsSubmission
  FeedbackReachedTrader
PROPERTIES
  DecisionStands
