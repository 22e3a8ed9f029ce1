SPECIFICATION FairSpec
CONSTANTS
  s1 = s1
  w1 = w1
  w2 = w2
  Streams = {s1}
  Workers = {w1, w2}
  Whole = 2
  MaxMessages = 2
  MaxUnread = 2
INVARIANT TypeOK
PROPERTIES FollowersSeeTheEnd PollsBringProgress StreamEnds
CHECK_DEADLOCK FALSE
