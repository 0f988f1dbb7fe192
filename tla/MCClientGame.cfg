\* One match, two servers, each result published once or twice.
CONSTANTS
  P1 = P1
  P2 = P2
  Server = {s1, s2}
  Copies = 2
  MaxMatches = 1
  MaxDisruptions = 1
SPECIFICATION FairSpec
CHECK_DEADLOCK FALSE
INVARIANT TypeOK
INVARIANT ResultsTrue
INVARIANT ShownInOrder
PROPERTY FirstMatchEnds
PROPERTY AbsenceSettled
