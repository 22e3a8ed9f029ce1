SPECIFICATION Spec
CONSTANTS
  t1 = t1  t2 = t2  page = page  other = other
  n1 = n1  n2 = n2
  NoTab = NoTab  NoToken = NoToken
  Tabs = {t1, t2}
  Tokens = {n1, n2}
  Slots <- TwoAndOne
  Submits <- FormsOfOne
  Form = page
  MaxFailed = 1
  MaxDisruptions = 1
SYMMETRY AnyPair
INVARIANTS TypeOK RefusedForCause StoredTokenIsGood WaitersAreWoken
CHECK_DEADLOCK FALSE
