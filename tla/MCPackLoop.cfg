\* Every N from 0 to 40, so every remainder of the division many times over.
CONSTANT MaxCards = 40
SPECIFICATION PacksSpec
CHECK_DEADLOCK FALSE
INVARIANT SliceInBounds
INVARIANT EveryCardOnce
INVARIANT ShortPackLast
