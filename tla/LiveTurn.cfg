SPECIFICATION FairSpec
CONSTANTS
  ask = ask
  stuck = stuck
  tool = tool
  one = one
  NoText = NoText
  NoId = NoId
  LongLine = LongLine
  Texts <- MCTexts
  Kind <- MCKind
  Ids <- MCIds
  Lines <- MCLines
  MaxLines = 2
  Actors <- MCActors
  Sessions <- MCSessions
  Own = 1
  MaxFaults = 1
  MaxOther = 1
CHECK_DEADLOCK FALSE
INVARIANT TypeOK
INVARIANT HandlerHasTheSession
INVARIANT ShownOnce
INVARIANT NothingWrittenIsLost
INVARIANT ShownIsActedOn
INVARIANT HealthyTurnSucceeds
INVARIANT CardIsCurrent
PROPERTY TurnReturns
