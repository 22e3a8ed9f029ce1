SPECIFICATION Spec
CONSTANTS
  u1 = u1  u2 = u2  u3 = u3  i1 = i1  i2 = i2  e1 = e1  e2 = e2
  Units = {u1, u2, u3}
  Inserts = {i1, i2}
  UnitsOf <- TwoRuns
  Extracted <- ToReview
  Values = {"needs_review", "approved", "rejected", "rice", "paddy"}
  Editors = {e1, e2}
  Requests <- SomeRequests
  Filters = {"needs_review", "any"}
  AnyStatus = "any"
  Limit = 1
  MaxTime = 2
INVARIANTS TypeOK LastChangeStands ListingIsSound
PROPERTY PreviousValuesKept
CHECK_DEADLOCK FALSE
