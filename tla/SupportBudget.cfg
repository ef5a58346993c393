SPECIFICATION FairSpec
CONSTANTS
  tool = tool
  resolved = resolved
  ask = ask
  choice = choice
  danger = danger
  approve = approve
  Texts <- MCAskAndTool
  Kind <- MCAskAndToolKind
  NoText = NoText
  Risky = {}
  Choice = {}
  MaxAutoReplies = 2
  MaxEvents = 2
  MaxAttempts = 3
  MaxFaults = 0
  MayVanish = FALSE
PROPERTY EveryDeliveryEnds
