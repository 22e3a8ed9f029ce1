SPECIFICATION Spec
CONSTANTS
  NoTitle = NoTitle
  Documents <- SomeDocuments
  MaxChars = 7
  Overlap = 3
  MinLength = 2
  TopK = 2
  Replies <- SomeReplies
INVARIANTS TypeOK PagesAreNamed TextIsKept ScenesAreAccounted CitationsHold
PROPERTY ChunkingEnds
CHECK_DEADLOCK FALSE
