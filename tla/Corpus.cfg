SPECIFICATION Spec
CONSTANTS
  b1 = b1  b2 = b2
  NoFile = NoFile  Cut = Cut  NoName = NoName
  Books = {b1, b2}
  Pages <- TwoAndOne
  PartPages = 1
  Mended = b1
  MaxChars = 2
  Overlap = 1
  Faint <- FirstOfTwo
  Batch = 1
  MaxCommands = 2
  MaxBreaks = 1
  MaxLosses = 1
INVARIANTS TypeOK StoredBookIsWhole RecordsAreEarned RepeatsForCause UnitsOfTheirBook
PROPERTIES PagesInOrder
CHECK_DEADLOCK FALSE
