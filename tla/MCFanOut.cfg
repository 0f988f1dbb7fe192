\* Three members that may all say yes.
CONSTANTS
  Member = {m1, m2, m3}
  Capacity = 1
  Answers = {"yes", "no", "failed"}
SPECIFICATION FairSpec
CHECK_DEADLOCK FALSE
INVARIANT NoSendOnClosed
PROPERTY ImplementsAnyOf
PROPERTY EverythingEnds
