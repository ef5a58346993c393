----------------------------- MODULE MCLiveTurn -----------------------------
(* An agent that asks a question as an item with an id, is blocked in a    *)
(* message without one, perhaps twice in the same words, and calls a tool. *)
EXTENDS LiveTurn, TLC

CONSTANTS ask, stuck, tool, one

MCTexts == {ask, stuck, tool}
MCKind == ask :> "question" @@ stuck :> "blocked" @@ tool :> "tool_activity"
MCIds == {one}
MCLines == {[text |-> ask, id |-> one], [text |-> stuck, id |-> NoId],
            [text |-> tool, id |-> NoId]}
MCActors == {"turn", "other"}
MCSessions == {1, 2}
=============================================================================
