---------------------------- MODULE SessionHeader ----------------------------
(***************************************************************************)
(* What Telegram shows of one session and what is true of it.  Three       *)
(* places show its state: the icon in the title of its topic, the header   *)
(* card in the topic, and the control card, which lists the session as     *)
(* long as it counts as active.  All three are redrawn when an event is    *)
(* projected or a decision saved (upsertSessionHeaderCard), from the       *)
(* actor's own copy of the record, from the run the copy names and, for    *)
(* the control card, from the files; nothing redraws them when a run ends. *)
(* The title is sent only if it differs from the one the copy remembers.   *)
(*                                                                         *)
(* The actors are the main loop and the goroutine of the session's start.  *)
(* Left out: what support answers and when (any decision may be taken      *)
(* here, see SessionSupport), topics that are gone (SessionSupport and     *)
(* SessionLifecycle), how the control card is kept (ControlCard; there is  *)
(* one), and all of a title but its icon.  The snapshot and the record are *)
(* saved in one step.                                                      *)
(***************************************************************************)
EXTENDS Naturals

CONSTANTS
  MaxRuns,   \* bound: runs recorded for the session
  MaxFaults  \* bound: failed calls and saves, and kills

ASSUME MaxRunsIsPositive == MaxRuns \in Nat \ {0}
ASSUME MaxFaultsIsNatural == MaxFaults \in Nat

Actors == {"main", "start"}
RunIds == 1 .. MaxRuns

VARIABLES
  policy,   \* process: a support policy is configured
  provider, \* process: the provider of the session, "codex" or "claude"
  runs,     \* disk: the status of each run, "none" if there is no such run
  snap,     \* disk: the mood the snapshot holds
  record,   \* disk: the session record
  title,    \* Telegram: the icon in the topic's title
  headers,  \* Telegram: header cards in the topic
  header,   \* Telegram: what the last of them shows
  listed,   \* Telegram: the control card lists the session
  at,       \* actors: where the handler is
  then,     \* actors: where it goes on after a redraw
  copy,     \* actors: the record in memory
  how,      \* actors: the turn is a "start", a "resume" or a "reply"
  said,     \* actors: the turn had "nothing" to project, "news", or a "matter" to act on
  loaded,   \* actors: the mood an automatic reply was decided on
  bad,      \* actors: the stream observer holds an error
  overlap,  \* history: the actors have worked at the same time
  untold,   \* history: a title was edited and not saved
  outcome,  \* history: how the last handler ended
  faults    \* history: failed calls and saves, and kills

disk == <<runs, snap, record>>
telegram == <<title, headers, header, listed>>
turnVars == <<how, said, loaded, bad>>
history == <<overlap, untold, outcome, faults>>
config == <<policy, provider>>
vars == <<config, disk, telegram, at, then, copy, turnVars, history>>

-----------------------------------------------------------------------------
(* Moods: the part of a snapshot that is shown.  The texts of the last     *)
(* question and blocker are reduced to whether there is one.               *)

SupportStates == {"idle", "replied", "ask_human", "escalated"}
Moods == [failed : BOOLEAN, blocker : BOOLEAN, question : BOOLEAN, support : SupportStates,
          needed : BOOLEAN]
NewMood == [failed |-> FALSE, blocker |-> FALSE, question |-> FALSE, support |-> "idle",
            needed |-> FALSE]

Human(m) == m.support \in {"ask_human", "escalated"}

Kinds == {"tool_activity", "question", "blocked", "approval_needed", "blocker_resolved"}
ActionableKinds == {"question", "blocked", "approval_needed"}

(* Mutant: the label of a decision that clears is left empty.              *)
DecidedUnlabelled(m, support) ==
  [m EXCEPT !.support = IF support = "idle" THEN "" ELSE support,
            !.needed = (support = "escalated")]

(* Snapshot.ApplySupportDecision.                                          *)
Decided(m, support) ==
  [m EXCEPT !.support = support,
            !.needed = CASE support = "escalated" -> TRUE
                         [] support = "idle" -> FALSE
                         [] OTHER -> @]

(* Snapshot.Apply; third: it is the third blocked event of a row.          *)
Applied(m, kind, third) ==
  [m EXCEPT !.blocker = (kind = "blocked" \/ (@ /\ kind # "blocker_resolved")),
            !.question = (kind \in {"question", "approval_needed"} \/ @),
            !.needed = (kind = "blocked" /\ third) \/ (@ /\ kind # "blocker_resolved")]

(* ... and ApplySupportFallback, where projectSessionEvent calls it.       *)
Projected(m, kind, third) ==
  CASE kind = "approval_needed" -> Decided(Applied(m, kind, third), "escalated")
    [] kind = "blocker_resolved" -> Decided(Applied(m, kind, third), "idle")
    [] kind \in {"question", "blocked"} /\ ~policy -> Decided(Applied(m, kind, third), "ask_human")
    [] OTHER -> Applied(m, kind, third)

(* A failed turn (recordStartFailure, recordResumeFailure).                *)
FailedMood == Decided([snap EXCEPT !.failed = TRUE, !.blocker = TRUE], "escalated")

(* Nothing is pending for clearResolvedSupportState.                       *)
Resolved(m) == m.support = "idle"

-----------------------------------------------------------------------------
(* What is shown.                                                          *)

(* displaySession: a session whose run is over waits.  A status "failed"   *)
(* stays; nothing sets it back.                                            *)
Waits(m, run) == ~m.failed /\ runs[run] \notin {"active", "none"}

Icons == {"starting", "failed", "blocked", "question", "idle", "running"}
Icon(m, run) ==
  CASE m.failed -> "failed"
    [] ~m.failed /\ Human(m) /\ m.blocker -> "blocked"
    [] ~m.failed /\ Human(m) /\ ~m.blocker /\ m.question -> "question"
    [] OTHER -> IF Waits(m, run) THEN "idle" ELSE "running"

Label(m, run) ==
  IF m.failed THEN "failed" ELSE IF Waits(m, run) /\ ~Human(m) THEN "idle" ELSE "running"

Card(m, run) == [state |-> Label(m, run), support |-> m.support, human |-> Human(m)]
NoCard == [state |-> "none", support |-> "idle", human |-> FALSE]

(* generalControlCardIsActive.                                             *)
Active(m, run) == Human(m) \/ Label(m, run) \in {"idle", "running"} \/ m.needed

-----------------------------------------------------------------------------
NoRecord == [run |-> 0, mood |-> NewMood, title |-> "starting", card |-> FALSE]
Records == [run : 0 .. MaxRuns, mood : Moods, title : Icons, card : BOOLEAN]

Init ==
  /\ policy \in BOOLEAN /\ provider \in {"codex", "claude"}
  /\ runs = [r \in RunIds |-> "none"] /\ snap = NewMood /\ record = NoRecord
  /\ title = "starting" /\ headers = 0 /\ header = NoCard /\ listed = FALSE
  /\ at = [a \in Actors |-> "idle"] /\ then = [a \in Actors |-> "idle"]
  /\ copy = [a \in Actors |-> NoRecord]
  /\ how = [a \in Actors |-> "start"] /\ said = [a \in Actors |-> "nothing"]
  /\ loaded = [a \in Actors |-> NewMood] /\ bad = [a \in Actors |-> FALSE]
  /\ overlap = FALSE /\ untold = FALSE /\ outcome = "none" /\ faults = 0

Goes(a, to) == at' = [at EXCEPT ![a] = to]
Sets(var, a, value) == var' = [var EXCEPT ![a] = value]
Becomes(a, mood) == [copy[a] EXCEPT !.mood = mood]

(* Session and snapshot are saved with a new mood, and all is redrawn.     *)
Redraws(a, mood, next) ==
  /\ snap' = mood /\ record' = Becomes(a, mood) /\ Sets(copy, a, Becomes(a, mood))
  /\ Goes(a, "title") /\ Sets(then, a, next)

(* The handler returns, and what it knew is gone.                          *)
Forgets(a) ==
  /\ Goes(a, "idle") /\ Sets(then, a, "idle") /\ Sets(copy, a, NoRecord)
  /\ Sets(how, a, "start") /\ Sets(said, a, "nothing") /\ Sets(loaded, a, NewMood)
  /\ Sets(bad, a, FALSE)

-----------------------------------------------------------------------------
(* A redraw: upsertSessionHeaderCard.                                      *)

(* Mutant: the new title is remembered in memory only.                     *)
SyncTitleUnsaved(a) ==
  /\ at[a] = "title"
  /\ title' = Icon(copy[a].mood, copy[a].run)
  /\ Sets(copy, a, [copy[a] EXCEPT !.title = title'])
  /\ Goes(a, "header")
  /\ UNCHANGED <<config, disk, headers, header, listed, then, turnVars, history>>

(* Mutant: the title that has not changed ends the redraw.                 *)
SyncTitleOrReturn(a) ==
  /\ at[a] = "title"
  /\ LET want == Icon(copy[a].mood, copy[a].run) IN
       IF copy[a].title = want
         THEN Goes(a, then[a]) /\ UNCHANGED <<title, copy>>
         ELSE /\ title' = want
              /\ Sets(copy, a, [copy[a] EXCEPT !.title = want])
              /\ Goes(a, "saveTitle")
  /\ UNCHANGED <<config, disk, headers, header, listed, then, turnVars, history>>

(* syncSessionTopicTitle, up to its save.                                  *)
SyncTitle(a) ==
  /\ at[a] = "title"
  /\ LET want == Icon(copy[a].mood, copy[a].run) IN
       IF copy[a].title = want
         THEN Goes(a, "header") /\ UNCHANGED <<title, copy>>
         ELSE /\ title' = want
              /\ Sets(copy, a, [copy[a] EXCEPT !.title = want])
              /\ Goes(a, "saveTitle")
  /\ UNCHANGED <<config, disk, headers, header, listed, then, turnVars, history>>

SaveTitle(a) ==
  /\ at[a] = "saveTitle"
  /\ record' = copy[a]
  /\ Goes(a, "header")
  /\ UNCHANGED <<config, runs, snap, telegram, then, copy, turnVars, history>>

EditHeader(a) ==
  /\ at[a] = "header"
  /\ header' = Card(copy[a].mood, copy[a].run)
  /\ IF copy[a].card
       THEN Goes(a, "list") /\ UNCHANGED <<headers, copy>>
       ELSE /\ headers' = headers + 1
            /\ Sets(copy, a, [copy[a] EXCEPT !.card = TRUE])
            /\ Goes(a, "saveHeader")
  /\ UNCHANGED <<config, disk, title, listed, then, turnVars, history>>

SaveHeader(a) ==
  /\ at[a] = "saveHeader"
  /\ record' = copy[a]
  /\ Goes(a, "list")
  /\ UNCHANGED <<config, runs, snap, telegram, then, copy, turnVars, history>>

(* The control card is made from the files.                                *)
RefreshListing(a) ==
  /\ at[a] = "list"
  /\ listed' = Active(snap, record.run)
  /\ Goes(a, then[a]) /\ Sets(then, a, "idle")
  /\ UNCHANGED <<config, disk, title, headers, header, copy, turnVars, history>>

Redraw(a) == SyncTitle(a) \/ SaveTitle(a) \/ EditHeader(a) \/ SaveHeader(a) \/ RefreshListing(a)

-----------------------------------------------------------------------------
(* The launch and the beginning of a turn.                                 *)

Launch ==
  /\ at["main"] = "idle" /\ record = NoRecord
  /\ runs' = [runs EXCEPT ![1] = "active"]
  /\ record' = [NoRecord EXCEPT !.run = 1] /\ Sets(copy, "main", record')
  /\ Goes("main", "title") /\ Sets(then, "main", "launched")
  /\ UNCHANGED <<config, snap, telegram, turnVars, history>>

(* Mutant: the goroutine gets the session as it was before its header card.*)
HandsOverDraft ==
  /\ at["main"] = "launched"
  /\ copy' = [copy EXCEPT !["start"] = [NoRecord EXCEPT !.run = 1], !["main"] = NoRecord]
  /\ at' = [at EXCEPT !["start"] = "turn", !["main"] = "idle"]
  /\ Sets(then, "main", "idle")
  /\ UNCHANGED <<config, disk, telegram, turnVars, history>>

(* The goroutine gets the session by value.                                *)
HandsOver ==
  /\ at["main"] = "launched"
  /\ copy' = [copy EXCEPT !["start"] = copy["main"], !["main"] = NoRecord]
  /\ at' = [at EXCEPT !["start"] = "turn", !["main"] = "idle"]
  /\ Sets(then, "main", "idle")
  /\ UNCHANGED <<config, disk, telegram, turnVars, history>>

(* The provider session id is in the run once the first turn is saved; a   *)
(* failed resume keeps it, a failed start has none.                        *)
Resumable(run) == runs[run] = "exited" \/ (runs[run] = "failed" /\ run # 1)

FreeRuns == {r \in RunIds : runs[r] = "none"}

(* A message in the session's topic.                                       *)
ResumeBegins ==
  /\ at["main"] = "idle" /\ record # NoRecord /\ Resumable(record.run)
  /\ FreeRuns # {}
  /\ Sets(copy, "main", record) /\ Sets(how, "main", "resume")
  /\ Goes("main", "turn")
  /\ overlap' = (overlap \/ at["start"] # "idle")
  /\ outcome' = "none"
  /\ UNCHANGED <<config, disk, telegram, then, said, loaded, bad, untold, faults>>

-----------------------------------------------------------------------------
(* The turn.                                                               *)

Streaming(a) == at[a] = "turn" /\ provider = "codex" /\ how[a] # "reply"

(* An event is projected, during Codex's stream or from the result; of     *)
(* Claude's turn there is the last message.                                *)
Project(a, kind, third) ==
  /\ at[a] = "deliver" \/ Streaming(a)
  /\ provider = "claude" => said[a] = "nothing" /\ kind # "tool_activity"
  /\ third => kind = "blocked"
  /\ Redraws(a, Projected(snap, kind, third), at[a])
  /\ Sets(said, a, IF kind \in ActionableKinds \/ said[a] = "matter" THEN "matter" ELSE "news")
  /\ UNCHANGED <<config, runs, telegram, how, loaded, bad, history>>

(* The run a turn ends with: a start has it already.                       *)
NewRun(a, run) == IF how[a] = "start" THEN run = 1 ELSE run \in FreeRuns /\ \A r \in FreeRuns : run <= r

(* The run is over.  A start saves its run only; after a resume and after  *)
(* an automatic reply the record is saved too, and after a reply also the  *)
(* snapshot, as it was when the reply was decided on.                      *)
TurnEnds(a) ==
  /\ at[a] = "turn" /\ ~bad[a]
  /\ \E run \in RunIds :
       /\ NewRun(a, run)
       /\ runs' = [runs EXCEPT ![run] = "exited"]
       /\ Sets(copy, a, [copy[a] EXCEPT !.run = run])
       /\ record' = IF how[a] = "start" THEN record ELSE [copy[a] EXCEPT !.run = run]
  /\ snap' = IF how[a] = "reply" THEN loaded[a] ELSE snap
  /\ Goes(a, "deliver") /\ Sets(then, a, "idle") /\ Sets(loaded, a, NewMood)
  /\ UNCHANGED <<config, telegram, how, said, bad, history>>

(* Mutant: the failure is recorded and nothing is redrawn.                 *)
TurnFailsUnseen(a) ==
  /\ at[a] = "turn"
  /\ \E run \in RunIds :
       /\ NewRun(a, run)
       /\ runs' = [runs EXCEPT ![run] = "failed"]
       /\ record' = [Becomes(a, FailedMood) EXCEPT !.run = run]
       /\ Sets(copy, a, record')
  /\ snap' = FailedMood
  /\ Goes(a, "failed") /\ UNCHANGED then
  /\ UNCHANGED <<config, telegram, turnVars, history>>

TurnFails(a) ==
  /\ at[a] = "turn"
  /\ \E run \in RunIds :
       /\ NewRun(a, run)
       /\ runs' = [runs EXCEPT ![run] = "failed"]
       /\ record' = [Becomes(a, FailedMood) EXCEPT !.run = run]
       /\ Sets(copy, a, record')
  /\ snap' = FailedMood
  /\ Goes(a, "title") /\ Sets(then, a, "failed")
  /\ UNCHANGED <<config, telegram, turnVars, history>>

-----------------------------------------------------------------------------
(* deliverSessionResult, when the events are projected.                    *)

Returns(a, result) ==
  /\ Forgets(a) /\ outcome' = result
  /\ UNCHANGED <<config, disk, telegram, overlap, untold, faults>>

(* "No visible reply yet", or news in Claude's last message.               *)
NothingMore(a) ==
  /\ at[a] = "deliver" /\ said[a] # "matter"
  /\ said[a] = "nothing" \/ provider = "claude"
  /\ Returns(a, "delivered")

(* clearResolvedSupportState.                                              *)
Clear(a) ==
  /\ at[a] = "deliver" /\ said[a] # "matter"
  /\ said[a] = "nothing" \/ provider = "codex"
  /\ IF ~Resolved(copy[a].mood) /\ ~Resolved(snap)
       THEN /\ Redraws(a, Decided(snap, "idle"), "delivered")
            /\ UNCHANGED <<config, runs, telegram, turnVars, history>>
       ELSE Returns(a, "delivered")

(* Support ignores the matter, or has no policy for it.                    *)
Ignores(a) ==
  /\ at[a] = "deliver" /\ said[a] = "matter"
  /\ Returns(a, "delivered")

LeavesToHuman(a, support) ==
  /\ at[a] = "deliver" /\ said[a] = "matter"
  /\ policy \/ support = "ask_human"
  /\ Redraws(a, Decided(snap, support), "delivered")
  /\ UNCHANGED <<config, runs, telegram, turnVars, history>>

(* The reply is another turn, which makes a run of its own.                *)
Replies(a) ==
  /\ at[a] = "deliver" /\ said[a] = "matter" /\ policy /\ FreeRuns # {}
  /\ Redraws(a, Decided(snap, "replied"), "turn")
  /\ Sets(loaded, a, snap) /\ Sets(how, a, "reply") /\ Sets(said, a, "nothing")
  /\ UNCHANGED <<config, runs, telegram, bad, history>>

Delivered(a) == at[a] \in {"delivered", "failed"} /\ Returns(a, at[a])

-----------------------------------------------------------------------------
(* Failures.                                                               *)

Redrawing(a) == at[a] \in {"title", "saveTitle", "header", "saveHeader", "list"}

(* Calls or saves of these actors fail, or are never made.  A call that    *)
(* fails may have reached Telegram.                                        *)
Fail(actors) ==
  /\ faults < MaxFaults /\ faults' = faults + 1
  /\ untold' = (untold \/ \E a \in actors : at[a] \in {"title", "saveTitle"})
  /\ title' \in {title} \cup {Icon(copy[a].mood, copy[a].run) : a \in {b \in actors : at[b] = "title"}}
  /\ headers' \in {headers} \cup
       {headers + 1 : a \in {b \in actors : at[b] = "header" /\ ~copy[b].card}}
  /\ UNCHANGED <<header, listed>>

(* A redraw fails during the stream: the observer keeps the error, and the *)
(* stream goes on.                                                         *)
StreamBreaks(a) ==
  /\ Redrawing(a) /\ then[a] = "turn" /\ how[a] # "reply"
  /\ Fail({a})
  /\ Goes(a, "turn") /\ Sets(bad, a, TRUE)
  /\ UNCHANGED <<config, disk, then, copy, how, said, loaded, overlap, outcome>>

(* Anywhere else an error ends the goroutine of the start ...              *)
StartBreaks ==
  /\ at["start"] # "idle"
  /\ Redrawing("start") => then["start"] # "turn" \/ how["start"] = "reply"
  /\ Fail({"start"})
  /\ Forgets("start") /\ outcome' = "broken"
  /\ UNCHANGED <<config, disk, overlap>>

EverybodyForgets ==
  /\ at' = [a \in Actors |-> "idle"] /\ then' = [a \in Actors |-> "idle"]
  /\ copy' = [a \in Actors |-> NoRecord]
  /\ how' = [a \in Actors |-> "start"] /\ said' = [a \in Actors |-> "nothing"]
  /\ loaded' = [a \in Actors |-> NewMood] /\ bad' = [a \in Actors |-> FALSE]
  /\ outcome' = "broken"

(* ... and one of the main loop the process, as does a kill.  The update   *)
(* comes again and is handled as a new one.                                *)
Crash ==
  /\ \E a \in Actors : at[a] # "idle"
  /\ Fail(Actors)
  /\ EverybodyForgets
  /\ UNCHANGED <<config, disk, overlap>>

(* The error that the observer of a resume has kept is returned.           *)
BadResumeReturns ==
  /\ at["main"] = "turn" /\ bad["main"]
  /\ untold' = (untold \/ at["start"] \in {"title", "saveTitle"})
  /\ EverybodyForgets
  /\ UNCHANGED <<config, disk, telegram, overlap, faults>>

-----------------------------------------------------------------------------
Next ==
  \/ Launch \/ HandsOver \/ ResumeBegins
  \/ \E a \in Actors : Redraw(a)
  \/ \E a \in Actors, kind \in Kinds, third \in BOOLEAN : Project(a, kind, third)
  \/ \E a \in Actors : TurnEnds(a) \/ TurnFails(a)
  \/ \E a \in Actors : NothingMore(a) \/ Clear(a) \/ Ignores(a) \/ Replies(a) \/ Delivered(a)
  \/ \E a \in Actors, support \in {"ask_human", "escalated"} : LeavesToHuman(a, support)
  \/ \E a \in Actors : StreamBreaks(a)
  \/ StartBreaks \/ Crash \/ BadResumeReturns

Spec == Init /\ [][Next]_vars

-----------------------------------------------------------------------------
Rests == {"idle", "launched", "turn", "deliver", "delivered", "failed"}

TypeOK ==
  /\ policy \in BOOLEAN /\ provider \in {"codex", "claude"}
  /\ runs \in [RunIds -> {"none", "active", "exited", "failed"}]
  /\ snap \in Moods /\ record \in Records
  /\ title \in Icons /\ headers \in Nat /\ listed \in BOOLEAN
  /\ header \in [state : {"none", "failed", "idle", "running"}, support : SupportStates,
                 human : BOOLEAN]
  /\ at \in [Actors -> Rests \cup {"title", "saveTitle", "header", "saveHeader", "list"}]
  /\ then \in [Actors -> Rests]
  /\ copy \in [Actors -> Records] /\ loaded \in [Actors -> Moods]
  /\ how \in [Actors -> {"start", "resume", "reply"}]
  /\ said \in [Actors -> {"nothing", "news", "matter"}] /\ bad \in [Actors -> BOOLEAN]
  /\ overlap \in BOOLEAN /\ untold \in BOOLEAN
  /\ outcome \in {"none", "delivered", "failed", "broken"}
  /\ faults \in 0 .. MaxFaults

AtRest == \A a \in Actors : at[a] = "idle"

(* A session has one header card, however its launch ends and whoever      *)
(* redraws it (upsertSessionHeaderCard, finishStart).                      *)
OneHeader == headers <= 1

(* The title that the record remembers is the one Telegram has, so that    *)
(* syncSessionTopicTitle never skips a title that is wanted - unless the   *)
(* two actors' copies remembered different ones, or the save after an edit *)
(* was lost.                                                               *)
TitleIsKnown == AtRest /\ ~overlap /\ ~untold => record.title = title

(* A session that rests shows whether a human is needed, and nothing else: *)
(* in its header card, in its title as far as the files say what about,    *)
(* and in the control card.  Every save of a decision is followed by a     *)
(* redraw, and no save that is not changes the matter                      *)
(* (applySupportDecision, projectSessionEvent, maybeAutoReplyForEvent).    *)
AttentionIsShown ==
  AtRest /\ ~overlap /\ faults = 0 /\ record # NoRecord =>
    /\ header.human = Human(record.mood)
    /\ Human(record.mood) => listed
    /\ title \in {"blocked", "question"} => Human(record.mood)
    /\ Human(record.mood) /\ ~record.mood.failed =>
         /\ record.mood.blocker => title = "blocked"
         /\ ~record.mood.blocker /\ record.mood.question => title = "question"

(* A header card says of a session that rests what its record says, and    *)
(* the control card lists the session, whoever of the two actors drew them *)
(* last - but nothing draws them when a run ends, so that a session that   *)
(* waits may still be called running; and nothing sets a status "failed"   *)
(* back, so that a session that failed once and works again is not listed  *)
(* (upsertSessionHeaderCard, displaySession, generalControlCardIsActive).  *)
CardsAreTrue ==
  AtRest /\ ~overlap /\ faults = 0 /\ record # NoRecord =>
    LET now == Card(record.mood, record.run) IN
    /\ header = now \/ (now.state = "idle" /\ header = [now EXCEPT !.state = "running"])
    /\ listed \/ (record.mood.failed /\ outcome = "delivered")
=============================================================================
