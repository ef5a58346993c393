SPECIFICATION Spec
CONSTANTS
  tool = tool
  resolved = resolved
  ask = ask
  choice = choice
  danger = danger
  approve = approve
  Texts <- MCTexts
  Kind <- MCKind
  NoText = NoText
  Risky <- MCRisky
  Choice <- MCChoice
  MaxAutoReplies = 2
  MaxEvents = 2
  MaxAttempts = 3
  MaxFaults = 0
  MayVanish = FALSE
INVARIANT CardShowsLatestDecision
