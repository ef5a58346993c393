--------------------------- MODULE SessionSupport ---------------------------
(***************************************************************************)
(* What support does with the turns of one session: the events of a turn   *)
(* are projected into the snapshot and the session record, the first       *)
(* actionable one is answered by support, left to a human or ignored, and  *)
(* an answer is another provider turn, delivered in the same way           *)
(* (deliverSessionResult and maybeAutoReplyForEvent call each other).      *)
(*                                                                         *)
(* The snapshot and the session record are two files.  They are written    *)
(* one after the other, so a failure can leave them telling different      *)
(* stories, and the record in memory may be ahead of both.                 *)
(*                                                                         *)
(* Codex's turns are streamed and its transcript holds any number of       *)
(* events.  Claude's are not: all that is known of a turn is its last      *)
(* message, which is one event or none.                                    *)
(*                                                                         *)
(* A human may delete the session's topic at any time.  The next call that *)
(* shows something there finds it gone and retires the session: a human is *)
(* asked for, whatever was about to be saved, and the handler goes on as   *)
(* if nothing had happened (retireMissingSessionTopic).  No call in a      *)
(* deleted topic succeeds; one that Telegram refuses for another reason    *)
(* (the message to edit is not found) is a failed call like any other.     *)
(*                                                                         *)
(* One handler works on the session here; SessionLifecycle is about two.   *)
(* Each event of a turn is projected once: how a streamed event is kept    *)
(* from being projected again with the result is not modelled here.        *)
(***************************************************************************)
EXTENDS SessionSnapshot

CONSTANTS
  Risky,           \* texts with a risky token (isRiskySupportSummary)
  Choice,          \* texts that put a choice to the human (questionNeedsHumanChoice)
  MaxAutoReplies,  \* defaultMaxAutoReplies, 2 in the code
  MaxEvents,       \* bound: events in one turn
  MaxAttempts,     \* bound: the agent is not blocked once this many attempts are counted
  MaxFaults,       \* bound: failed saves and calls to Telegram
  MayVanish        \* bound: whether the topic is ever deleted

ASSUME RiskyAreTexts == Risky \subseteq Texts
ASSUME ChoiceAreTexts == Choice \subseteq Texts
ASSUME BoundsAreNatural ==
  /\ MaxAutoReplies \in Nat /\ MaxEvents \in Nat
  /\ MaxAttempts \in Nat /\ MaxFaults \in Nat /\ MayVanish \in BOOLEAN

VARIABLES
  policy,    \* process: whether a support policy is configured
  streamed,  \* process: whether the session's provider is Codex
  snap,      \* disk: the snapshot
  record,    \* disk: the session record
  session,   \* memory: the handler's copy of the record
  loaded,    \* memory: the snapshot maybeAutoReplyForEvent decided on
  at,        \* memory: where the handler is
  how,       \* memory: what the turn is: "start", "resume" or an automatic "reply"
  said,      \* memory: the events of the turn
  queue,     \* memory: those of its result still to be projected
  badStream, \* memory: the stream observer holds an error
  tells,     \* memory: finishStart will tell the topic if its delivery fails
  routed,    \* disk: the record has a topic, and messages there lead to it
  gone,      \* Telegram: the topic was deleted
  outcome,   \* history: how the last delivery ended
  decided,   \* history: the last support decision
  spent,     \* history: automatic replies since the agent last made progress,
             \* counted up to the first one too many
  torn,      \* history: a failed save left the files apart
  faults     \* history: failed saves and calls

files == <<snap, record, routed>>
turn == <<how, said, queue, badStream, tells>>
config == <<policy, streamed>>
vars == <<config, files, session, loaded, at, turn, gone, outcome, decided, spent, torn, faults>>

Actionable(t) == Kind[t] \in ActionableTypes
Progress(t) == Kind[t] \in ProgressTypes \cup {"blocker_resolved"}

Init ==
  /\ policy \in BOOLEAN /\ streamed \in BOOLEAN
  /\ snap = NewSnapshot /\ loaded = NewSnapshot
  /\ record = ApplySnapshot(NewSnapshot) /\ session = ApplySnapshot(NewSnapshot)
  /\ at = "turn" /\ how = "start" /\ said = <<>> /\ queue = <<>> /\ badStream = FALSE
  /\ tells = TRUE /\ routed = TRUE /\ gone = FALSE
  /\ outcome = "none" /\ decided = "idle"
  /\ spent = 0 /\ torn = FALSE /\ faults = 0

-----------------------------------------------------------------------------
(* Saves.                                                                  *)

Fault == faults < MaxFaults /\ faults' = faults + 1

(* session.ApplySnapshot(new), SaveSnapshot, SaveSession.                  *)
SaveBoth(new) ==
  /\ session' = ApplySnapshot(new)
  /\ snap' = new /\ record' = ApplySnapshot(new)
  /\ torn' = FALSE
  /\ UNCHANGED faults

(* What retiring the session makes of the snapshot s.                      *)
Retired(s) == ApplySupportDecision([s EXCEPT !.blocker = NoText], "escalated", TRUE)

(* The topic is gone: both files are saved once more, without the topic.   *)
Retires(s) == SaveBoth(Retired(s)) /\ routed' = FALSE

(* One of the two fails, and the record stays what it was before; or the   *)
(* control card fails after both.                                          *)
RetireFails(s, before) ==
  /\ Fault
  /\ session' = ApplySnapshot(Retired(s))
  /\ \/ /\ snap' \in {s, Retired(s)} /\ record' = before
        /\ torn' = TRUE
        /\ UNCHANGED routed
     \/ /\ snap' = Retired(s) /\ record' = ApplySnapshot(Retired(s))
        /\ torn' = FALSE
        /\ routed' = FALSE

(* The two saves, and then the title and the header card in the topic.     *)
SaveAndShow(new) == IF gone THEN Retires(new) ELSE SaveBoth(new) /\ UNCHANGED routed

(* One of the two saves fails, the second one after the first is done; the *)
(* card fails after both; or the topic is gone and retiring fails.         *)
SaveFails(new) ==
  \/ /\ Fault
     /\ session' = ApplySnapshot(new)
     /\ \/ snap' \in {snap, new} /\ torn' = TRUE /\ UNCHANGED record
        \/ snap' = new /\ record' = ApplySnapshot(new) /\ torn' = FALSE
     /\ UNCHANGED routed
  \/ gone /\ RetireFails(new, ApplySnapshot(new))

(* History: a decision was made, and that to retire the session after it.  *)
Decided(state) == decided' = IF gone THEN "escalated" ELSE state

(* The handler returns; what it knew of the turn is gone.                  *)
Ends(result) ==
  /\ at' = "idle" /\ outcome' = result
  /\ how' = "resume" /\ said' = <<>> /\ queue' = <<>> /\ badStream' = FALSE
  /\ loaded' = NewSnapshot

(* Save and show, then end the delivery in the given way; a failure ends   *)
(* it too and nothing that was saved is taken back.                        *)
SaveAndEnd(new, result) ==
  \/ SaveAndShow(new) /\ Ends(result)
  \/ SaveFails(new) /\ Ends("broken")

(* projectSessionEvent.                                                    *)
Falls(t) ==
  \/ Kind[t] \in {"approval_needed", "failed", "blocker_resolved", "done"}
  \/ Kind[t] \in {"blocked", "question"} /\ ~policy

Projected(t) ==
  IF Falls(t) THEN ApplySupportFallback(Apply(snap, t), t) ELSE Apply(snap, t)

ProjectHistory(t) ==
  /\ Decided(IF Falls(t) THEN FallbackState[Kind[t]] ELSE decided)
  /\ spent' = IF Progress(t) THEN 0 ELSE spent

-----------------------------------------------------------------------------
(* The turn.                                                               *)

(* A human deletes the topic.                                              *)
TopicIsDeleted ==
  /\ MayVanish /\ ~gone /\ gone' = TRUE
  /\ UNCHANGED <<config, files, session, loaded, at, turn, outcome, decided, spent, torn, faults>>

(* A human writes in the session's topic, before it is gone; the message   *)
(* may be handled after.                                                   *)
HumanMessage ==
  /\ at = "idle" /\ routed
  /\ at' = "turn" /\ outcome' = "none"
  /\ session' = record
  /\ tells' = FALSE
  /\ UNCHANGED <<config, files, loaded, how, said, queue, badStream, gone, decided, spent, torn,
                 faults>>

CanSay(t) == Len(said) < MaxEvents /\ (Kind[t] = "blocked" => snap.attempts < MaxAttempts)

(* Automatic replies are never streamed (Resume), the other turns are if   *)
(* the provider can.                                                       *)
Streaming == streamed /\ how # "reply"

(* The agent emits an event.  In a streamed turn it is projected at once   *)
(* and sent; an error is kept by the observer while the stream goes on.    *)
AgentStreams(t) ==
  /\ at = "turn" /\ Streaming
  /\ CanSay(t)
  /\ said' = Append(said, t)
  /\ \/ SaveAndShow(Projected(t)) /\ UNCHANGED badStream
     \/ SaveFails(Projected(t)) /\ badStream' = TRUE
  /\ ProjectHistory(t)
  /\ UNCHANGED <<config, loaded, at, how, queue, tells, gone, outcome>>

(* Without a stream the events wait for the result.                        *)
AgentSays(t) ==
  /\ at = "turn" /\ ~Streaming
  /\ CanSay(t)
  /\ streamed \/ (said = <<>> /\ Kind[t] \in MessageTypes)
  /\ said' = Append(said, t)
  /\ UNCHANGED <<config, files, session, loaded, at, how, queue, badStream, tells, gone, outcome,
                 decided, spent, torn, faults>>

(* Mutant: the failure is recorded without telling support.                *)
FailedTurnUnflagged ==
  [snap EXCEPT !.attempts = IF how = "reply" THEN session.attempts + 1 ELSE session.attempts,
               !.blocker = NoText]

(* recordStartFailure and recordResumeFailure: a failed turn is escalated. *)
(* After a resume the count in memory replaces that of the snapshot; a     *)
(* failed reply has been counted there.                                    *)
FailedTurn ==
  LET counted == CASE how = "start"  -> snap.attempts
                   [] how = "resume" -> session.attempts
                   [] how = "reply"  -> session.attempts + 1
  IN  ApplySupportDecision([snap EXCEPT !.attempts = counted, !.blocker = NoText], "escalated", TRUE)

(* The provider fails, or a start's observer holds an error.  What goes    *)
(* wrong in recordStartFailure itself is dropped.                          *)
TurnFails ==
  /\ at = "turn"
  /\ SaveAndEnd(FailedTurn, "owed")
  /\ decided' = "escalated"
  /\ tells' = (tells /\ how # "start")
  /\ UNCHANGED <<config, gone, spent>>

(* A resume's observer holds an error: it is returned, and ends the daemon.*)
ResumeStreamWasBad ==
  /\ at = "turn" /\ how = "resume" /\ badStream
  /\ Ends("broken")
  /\ UNCHANGED <<config, files, session, tells, gone, decided, spent, torn, faults>>

Unprojected == IF Streaming THEN <<>> ELSE said

StartEnds ==
  /\ at = "turn" /\ how = "start" /\ ~badStream
  /\ at' = "deliver" /\ queue' = Unprojected
  /\ UNCHANGED <<config, files, session, loaded, how, said, badStream, tells, gone, outcome,
                 decided, spent, torn, faults>>

(* handleSessionTopic saves the record with the new run.                   *)
ResumeEnds ==
  /\ at = "turn" /\ how = "resume" /\ ~badStream
  /\ record' = session
  /\ at' = "deliver" /\ queue' = Unprojected
  /\ UNCHANGED <<config, snap, routed, session, loaded, how, said, badStream, tells, gone, outcome,
                 decided, spent, torn, faults>>

(* Mutant: the reply is counted in the session record only.                *)
ReplyCountedInRecordOnly ==
  [session |-> [session EXCEPT !.attempts = @ + 1], snap |-> loaded]

(* What is saved after an automatic reply: the snapshot loaded before the  *)
(* decision to reply was saved, with the new count.                        *)
CountedReply ==
  [session |-> [session EXCEPT !.attempts = @ + 1],
   snap    |-> [loaded EXCEPT !.attempts = session.attempts + 1]]

ReplyEnds ==
  /\ at = "turn" /\ how = "reply"
  /\ session' = CountedReply.session
  /\ \/ /\ snap' = CountedReply.snap /\ record' = CountedReply.session
        /\ at' = "deliver" /\ queue' = said
        /\ torn' = FALSE
        /\ loaded' = NewSnapshot
        /\ UNCHANGED <<how, said, badStream, outcome, faults>>
     \/ /\ Fault
        /\ snap' \in {snap, CountedReply.snap}
        /\ torn' = TRUE
        /\ Ends("broken")
        /\ UNCHANGED record
  /\ UNCHANGED <<config, routed, tells, gone, decided, spent>>

-----------------------------------------------------------------------------
(* deliverSessionResult and maybeAutoReplyForEvent.                        *)

ProjectResult ==
  /\ at = "deliver" /\ queue # <<>>
  /\ LET t == Head(queue) IN
       /\ \/ /\ SaveAndShow(Projected(t))
             /\ queue' = Tail(queue)
             /\ UNCHANGED <<at, outcome, how, said, badStream, loaded>>
          \/ SaveFails(Projected(t)) /\ Ends("broken")
       /\ ProjectHistory(t)
  /\ UNCHANGED <<config, tells, gone>>

(* Mutant: an empty reply is not answered with a message.                  *)
MessageUnsent ==
  /\ at = "deliver" /\ queue = <<>>
  /\ at' = "decide"
  /\ UNCHANGED <<config, files, session, loaded, turn, gone, outcome, decided, spent, torn, faults>>

(* The message of the turn, or "No visible reply yet", is sent; not one    *)
(* that the events have told already.  Claude's is sent before its event   *)
(* is projected, and the projection would find the topic gone as well.     *)
Message ==
  /\ at = "deliver" /\ queue = <<>>
  /\ \/ /\ ~gone \/ said # <<>>
        /\ at' = "decide"
        /\ UNCHANGED <<files, session, loaded, turn, outcome, decided, torn, faults>>
     \/ /\ gone /\ (streamed \/ said = <<>>)
        /\ \/ /\ Retires(snap) /\ at' = "decide"
              /\ UNCHANGED <<loaded, turn, outcome>>
           \/ RetireFails(snap, record) /\ Ends("broken") /\ UNCHANGED tells
        /\ decided' = "escalated"
  /\ UNCHANGED <<config, gone, spent>>

(* All is projected and sent; t is the first actionable event of the turn. *)
DecidesOn(t) ==
  /\ at = "decide"
  /\ \E i \in DOMAIN said : /\ said[i] = t /\ Actionable(t)
                            /\ \A j \in 1 .. i - 1 : ~Actionable(said[j])

NothingActionable ==
  /\ at = "decide"
  /\ \A i \in DOMAIN said : ~Actionable(said[i])

(* "No visible reply yet", or a message of Claude's that is an event but   *)
(* not an actionable one (maybeAutoReply): nothing more is done.           *)
NothingMore ==
  /\ NothingActionable
  /\ said = <<>> \/ ~streamed
  /\ Ends("left")
  /\ UNCHANGED <<config, files, session, tells, gone, decided, spent, torn, faults>>

(* Mutant: a human who was asked for stays asked for.                      *)
ClearOnlyReplies ==
  /\ NothingActionable
  /\ streamed \/ said = <<>>
  /\ IF session.support = "replied" /\ ~Resolved(snap)
       THEN /\ SaveAndEnd(ApplySupportDecision(snap, "idle", FALSE), "resolved")
            /\ Decided("idle")
       ELSE /\ Ends("resolved")
            /\ UNCHANGED <<files, session, decided, torn, faults>>
  /\ UNCHANGED <<config, tells, gone, spent>>

(* clearResolvedSupportState, after events none of which is actionable or  *)
(* a message that is no event at all: it asks the record in memory first,  *)
(* and then the snapshot, whether anything is pending.                     *)
Clear ==
  /\ NothingActionable
  /\ streamed \/ said = <<>>
  /\ IF ~Resolved(session) /\ ~Resolved(snap)
       THEN /\ SaveAndEnd(ApplySupportDecision(snap, "idle", FALSE), "resolved")
            /\ Decided("idle")
       ELSE /\ Ends("resolved")
            /\ UNCHANGED <<files, session, decided, torn, faults>>
  /\ UNCHANGED <<config, tells, gone, spent>>

(* An approval or a choice is a human's to make, policy or not.            *)
HumanMatter(t) == Kind[t] = "approval_needed" \/ (Kind[t] = "question" /\ t \in Choice)

AsksHuman(t) ==
  /\ DecidesOn(t) /\ HumanMatter(t)
  /\ SaveAndEnd(ApplySupportDecision(snap, "ask_human", TRUE), "owed")
  /\ Decided("ask_human")
  /\ UNCHANGED <<config, tells, gone, spent>>

(* Without a policy the projection has already asked for a human, unless a *)
(* later event of the turn resolved the matter.                            *)
OpenWithoutPolicy ==
  \E i \in DOMAIN said :
    /\ Actionable(said[i])
    /\ \A j \in i + 1 .. Len(said) : Kind[said[j]] \notin {"blocker_resolved", "done"}

NoPolicy(t) ==
  /\ DecidesOn(t) /\ ~HumanMatter(t) /\ ~policy
  /\ Ends(IF OpenWithoutPolicy THEN "owed" ELSE "left")
  /\ UNCHANGED <<config, files, session, tells, gone, decided, spent, torn, faults>>

PolicyDecides(t) == DecidesOn(t) /\ ~HumanMatter(t) /\ policy

(* A repeated event is ignored, and so is one support has nothing to say   *)
(* to (a noop, or a blank reply).                                          *)
Ignores(t) ==
  /\ PolicyDecides(t)
  /\ IsRepeated(snap, t) \/ (t \notin Risky /\ snap.attempts < MaxAutoReplies)
  /\ Ends("left")
  /\ UNCHANGED <<config, files, session, tells, gone, decided, spent, torn, faults>>

(* A risky event and one beyond the budget are escalated; for any other    *)
(* support may decide to, or fail.                                         *)
Escalates(t) ==
  /\ PolicyDecides(t) /\ ~IsRepeated(snap, t)
  /\ SaveAndEnd(ApplySupportDecision(snap, "escalated", TRUE), "owed")
  /\ Decided("escalated")
  /\ UNCHANGED <<config, tells, gone, spent>>

(* Mutant: the budget is not looked at.                                    *)
AnswersBeyondBudget(t) == PolicyDecides(t) /\ ~IsRepeated(snap, t) /\ t \notin Risky

(* Support is asked for an answer.                                         *)
Consults(t) ==
  /\ PolicyDecides(t) /\ ~IsRepeated(snap, t)
  /\ t \notin Risky /\ snap.attempts < MaxAutoReplies

(* The answer is itself a question to the human.                           *)
PassesToHuman(t) ==
  /\ Consults(t)
  /\ SaveAndEnd(ApplySupportDecision(snap, "ask_human", TRUE), "owed")
  /\ Decided("ask_human")
  /\ UNCHANGED <<config, tells, gone, spent>>

(* The decision is saved and another turn begins with the answer.          *)
Replies(t) ==
  /\ Consults(t)
  /\ LET new == ApplySupportDecision(snap, "replied", FALSE) IN
       \/ /\ SaveAndShow(new)
          /\ loaded' = snap
          /\ at' = "turn" /\ how' = "reply" /\ said' = <<>>
          /\ Decided("replied")
          /\ spent' = IF spent > MaxAutoReplies + MaxFaults THEN spent ELSE spent + 1
          /\ UNCHANGED <<queue, badStream, outcome>>
       \/ SaveFails(new) /\ Ends("broken") /\ UNCHANGED <<decided, spent>>
  /\ UNCHANGED <<config, tells, gone>>

(* A message or a save other than those above fails, or the daemon dies.   *)
Breaks ==
  /\ at # "idle"
  /\ Fault
  /\ Ends("broken")
  /\ UNCHANGED <<config, files, session, tells, gone, decided, spent, torn>>

(* If it has not died, finishStart tells the topic that the delivery of a  *)
(* start failed (and may find it gone); an error of that is dropped.       *)
TellsOfFailure ==
  /\ at = "idle" /\ outcome = "broken" /\ tells /\ gone
  /\ \/ Retires(snap)
     \/ RetireFails(snap, record)
  /\ tells' = FALSE
  /\ decided' = "escalated"
  /\ UNCHANGED <<config, loaded, at, how, said, queue, badStream, gone, outcome, spent>>

-----------------------------------------------------------------------------
TurnEnds == TurnFails \/ ResumeStreamWasBad \/ StartEnds \/ ResumeEnds \/ ReplyEnds
Decides(t) == AsksHuman(t) \/ NoPolicy(t) \/ Ignores(t) \/ Escalates(t) \/ PassesToHuman(t)
              \/ Replies(t)

Next ==
  \/ HumanMessage \/ TopicIsDeleted
  \/ \E t \in Texts : AgentStreams(t)
  \/ \E t \in Texts : AgentSays(t)
  \/ TurnFails \/ ResumeStreamWasBad \/ StartEnds \/ ResumeEnds \/ ReplyEnds
  \/ ProjectResult \/ Message
  \/ Clear \/ NothingMore
  \/ \E t \in Texts : AsksHuman(t)
  \/ \E t \in Texts : NoPolicy(t)
  \/ \E t \in Texts : Ignores(t)
  \/ \E t \in Texts : Escalates(t)
  \/ \E t \in Texts : PassesToHuman(t)
  \/ \E t \in Texts : Replies(t)
  \/ Breaks \/ TellsOfFailure

Spec == Init /\ [][Next]_vars

(* A provider's turn ends, and the handler goes on with what it returned.  *)
Handler == TurnEnds \/ ProjectResult \/ Message \/ Clear \/ NothingMore \/ \E t \in Texts : Decides(t)
FairSpec == Spec /\ WF_vars(Handler)

-----------------------------------------------------------------------------
TypeOK ==
  /\ policy \in BOOLEAN /\ streamed \in BOOLEAN
  /\ snap \in Snapshots /\ loaded \in Snapshots
  /\ record \in Records /\ session \in Records
  /\ at \in {"idle", "turn", "deliver", "decide"}
  /\ how \in {"start", "resume", "reply"}
  /\ said \in Seq(Texts) /\ Len(said) <= MaxEvents
  /\ queue \in Seq(Texts) /\ Len(queue) <= MaxEvents
  /\ badStream \in BOOLEAN /\ tells \in BOOLEAN
  /\ routed \in BOOLEAN /\ gone \in BOOLEAN
  /\ outcome \in {"none", "owed", "left", "resolved", "broken"}
  /\ decided \in SupportStates
  /\ spent \in Nat
  /\ torn \in BOOLEAN
  /\ faults \in 0 .. MaxFaults

(* Between two signs of progress from the agent, support buys no more      *)
(* turns than its budget allows, and one more for every failure: a failed  *)
(* save can lose the count of the reply it followed, and nothing else can. *)
BudgetBetweenProgress == spent <= MaxAutoReplies + faults

(* When the delivery of a turn ends with something for a human - a failed  *)
(* turn, an approval, a choice, an escalation - both files say so, however *)
(* often support has answered, and rewritten the snapshot, in between.     *)
OwedIsFlagged == at = "idle" /\ outcome = "owed" => record.human /\ snap.human

(* When the agent ends a turn with nothing for anyone to act on, the       *)
(* session no longer asks for a human, even if the snapshot was written    *)
(* back from before an automatic reply.  There are two exceptions: after a *)
(* failed save the record may (the snapshot alone then says that nothing   *)
(* is pending), and a session whose topic turned out to be gone, before or *)
(* while the request was cleared, asks for one and is routed no more.      *)
AttentionClears == at = "idle" /\ outcome = "resolved" /\ ~torn /\ routed => ~record.human

(* A session that was retired while it was being worked on asks for a      *)
(* human in both files when the delivery ends without an error: the        *)
(* handler goes on after retireMissingSessionTopic, support answers and    *)
(* writes back the snapshot from before, requests are cleared, and still   *)
(* the last thing shown retires the session again.                         *)
RetiredIsFlagged ==
  at = "idle" /\ ~routed /\ outcome # "broken" => record.human /\ snap.human

(* A delivery ends unless the agent keeps making progress: from the time   *)
(* the attempt count no longer falls, support stops answering.             *)
StuckSessionSettles == <>[][snap'.attempts >= snap.attempts]_vars => []<>(at = "idle")

(* "Support auto-replies are budgeted so the daemon does not keep buying   *)
(* extra agent turns forever" (README.md): whatever the agent says, the    *)
(* delivery of a turn comes to an end.                                     *)
EveryDeliveryEnds == []<>(at = "idle")

(* "The latest support decision should be shown in the session header      *)
(* card" (DESIGN.md): the record the card is drawn from has the support    *)
(* state decided last, or none.                                            *)
CardShowsLatestDecision == at = "idle" => record.support \in {decided, "idle"}
=============================================================================
