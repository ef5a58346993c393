--------------------------- MODULE SessionSnapshot ---------------------------
(***************************************************************************)
(* The rolling snapshot of a session (internal/state/snapshot.go): what an *)
(* event from the agent and a support decision do to it, and the test for  *)
(* a repeated event that the support policy makes on it.                   *)
(*                                                                         *)
(* Kept are the fields that decide what support does next and whether a    *)
(* human is asked for: the attempt count, the last question and blocker,   *)
(* the recent events, the support state and the human flag.  Only the last *)
(* two of the 20 recent events are kept, because only they are ever read.  *)
(* The decision summary is empty in state "idle" and is left out, like the *)
(* phase, the status, the escalation label and the texts of errors.        *)
(***************************************************************************)
EXTENDS Naturals, Sequences

CONSTANTS
  Texts,    \* summaries of events
  Kind,     \* the event type of each text, as ClassifyText and the adapter give it
  NoText

ProgressTypes == {"tool_activity", "phase_changed", "session_started"}
ActionableTypes == {"question", "blocked", "approval_needed"}
(* What ClassifyText makes of a message.                                   *)
MessageTypes == ActionableTypes \cup {"blocker_resolved"}
EventTypes == ProgressTypes \cup ActionableTypes \cup
              {"blocker_resolved", "files_changed", "tests_changed", "done", "failed"}

ASSUME KindsAreEventTypes == Kind \in [Texts -> EventTypes]
ASSUME NoTextIsNoText == NoText \notin Texts

SupportStates == {"idle", "replied", "ask_human", "escalated"}
Recent == {<<>>} \cup {<<t>> : t \in Texts} \cup Texts \X Texts

Snapshots == [attempts : Nat, question : Texts \cup {NoText}, blocker : Texts \cup {NoText},
              recent : Recent, support : SupportStates, human : BOOLEAN]

NewSnapshot == [attempts |-> 0, question |-> NoText, blocker |-> NoText,
                recent |-> <<>>, support |-> "idle", human |-> FALSE]

(* The part of a snapshot that Session.ApplySnapshot copies into the       *)
(* session record, as far as it is kept here.                              *)
Records == [attempts : Nat, support : SupportStates, human : BOOLEAN]
ApplySnapshot(s) == [attempts |-> s.attempts, support |-> s.support, human |-> s.human]

(* Mutant: the oldest recent event is kept.                                *)
UntrimmedRecent(recent, t) == Append(recent, t)

AddRecent(recent, t) == IF recent = <<>> THEN <<t>> ELSE <<recent[Len(recent)], t>>

Apply(s, t) ==
  [s EXCEPT
     !.attempts = IF Kind[t] = "blocked" THEN @ + 1
                  ELSE IF Kind[t] \in ProgressTypes \cup {"blocker_resolved"} THEN 0 ELSE @,
     !.question = IF Kind[t] \in {"question", "approval_needed"} THEN t ELSE @,
     !.blocker  = IF Kind[t] = "blocked" THEN t
                  ELSE IF Kind[t] = "blocker_resolved" THEN NoText ELSE @,
     !.recent   = AddRecent(@, t)]

ApplySupportDecision(s, state, human) ==
  [s EXCEPT !.support = state,
            !.human = human \/ state \in {"ask_human", "escalated"}]

(* What the type of an event alone decides.                                *)
FallbackState ==
  [type \in EventTypes |->
     CASE type \in {"question", "blocked"} -> "ask_human"
       [] type \in {"approval_needed", "failed"} -> "escalated"
       [] OTHER -> "idle"]

ApplySupportFallback(s, t) ==
  IF Kind[t] \in ActionableTypes \cup {"failed", "blocker_resolved", "done"}
    THEN ApplySupportDecision(s, FallbackState[Kind[t]], FallbackState[Kind[t]] # "idle")
    ELSE s

(* Nothing is pending according to a snapshot or a session record.         *)
Resolved(s) == s.support = "idle" /\ ~s.human

(* isRepeatedSupportEvent: the event is the last one and the one before.   *)
IsRepeated(s, t) ==
  /\ \/ Kind[t] = "blocked" /\ s.blocker = t
     \/ Kind[t] = "question" /\ s.question = t
  /\ s.recent = <<t, t>>
=============================================================================
