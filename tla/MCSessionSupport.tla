-------------------------- MODULE MCSessionSupport --------------------------
(* A small world of texts for SessionSupport: one for each thing an agent  *)
(* can say that the code tells apart.                                      *)
EXTENDS SessionSupport, TLC

CONSTANTS tool, resolved, ask, choice, danger, approve

MCTexts == {tool, resolved, ask, choice, danger, approve}
MCKind == tool :> "tool_activity" @@ resolved :> "blocker_resolved"
          @@ ask :> "question" @@ choice :> "question"
          @@ danger :> "blocked" @@ approve :> "approval_needed"
MCRisky == {danger}
MCChoice == {choice}

(* An agent that calls a tool and asks the same question again.            *)
MCAskAndTool == {tool, ask}
MCAskAndToolKind == tool :> "tool_activity" @@ ask :> "question"
=============================================================================
