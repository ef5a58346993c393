SPECIFICATION Spec
CONSTANTS
  MaxRuns = 2
  MaxFaults = 1
CHECK_DEADLOCK FALSE
INVARIANT TypeOK
INVARIANT OneHeader
INVARIANT TitleIsKnown
INVARIANT AttentionIsShown
INVARIANT CardsAreTrue
