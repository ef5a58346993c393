-------------------------- MODULE SessionLifecycle --------------------------
(***************************************************************************)
(* The life of sessions in internal/app: launch, the start goroutine,      *)
(* resumes from a session topic, delivery with support auto-replies,       *)
(* retirement of a session whose topic is gone, cleanup, and the death and *)
(* restart of the daemon.                                                  *)
(*                                                                         *)
(* Two kinds of actors write the same JSON files.  The main loop (Main)    *)
(* handles one update at a time; every launch leaves a goroutine behind    *)
(* (an actor named like its session) that runs the provider's first turn   *)
(* and delivers its result.  Each works on its own copy of the session     *)
(* record and saves the whole record, so a save also writes back fields    *)
(* the other actor has changed in the meantime.                            *)
(*                                                                         *)
(* Of a session record only the active run and whether it still has a      *)
(* topic (SessionTopicID > 1) are kept; of a run only whether it has a     *)
(* ProviderSessionID.  Run ids are numbered in the order they are made;    *)
(* 0 stands for "no record".  What a session's support state does in       *)
(* delivery is the subject of SessionSupport.                              *)
(***************************************************************************)
EXTENDS Naturals

CONSTANTS
  Sessions,   \* session ids; the forum topic of a session goes by the same name
  Main,       \* the main loop
  MaxRun      \* bound: no turn begins once this many run ids are taken

ASSUME SomeSession == Sessions # {}
ASSUME MainIsNoSession == Main \notin Sessions
ASSUME MaxRunIsNatural == MaxRun \in Nat

VARIABLES
  topics,     \* Telegram: forum topics that exist
  redo,       \* Telegram: the update not yet acknowledged (see UpdateDelivery)
  stored,     \* disk: session records
  starting,   \* disk: runs without a ProviderSessionID
  usable,     \* disk: runs with one
  up,         \* whether the process runs
  mapped,     \* process: sessionsByThread
  pc,         \* process: where each actor is
  copy,       \* process: each actor's copy of the record it works on
  target,     \* process: the session Main works on
  badStream,  \* process: actors whose stream observer holds an error
  todo,       \* process: the cleanup targets left, as they were listed
  nextRun,    \* the next run id
  launched,   \* history: sessions launched so far
  fate,       \* history: how the start of each session was cut short, if it was
  cleaned     \* history: cleaned up while no start goroutine of theirs ran

telegram == <<topics, redo>>
runs == <<starting, usable>>
process == <<up, mapped, pc, copy, target, badStream, todo>>
history == <<launched, fate, cleaned>>
vars == <<telegram, stored, runs, process, nextRun, history>>

Actors == Sessions \cup {Main}

Record == [run : Nat, routed : BOOLEAN]
NoRecord == [run |-> 0, routed |-> FALSE]

(* The session an actor works on.                                          *)
Of(a) == IF a = Main THEN target ELSE a

Exists(s) == stored[s].run # 0
RunExists(r) == r \in starting \cup usable

NoUpdate == [kind |-> "none", on |-> {}]
Updates == [kind : {"none", "message", "cleanup"}, on : SUBSET Sessions]

Init ==
  /\ topics = {} /\ redo = NoUpdate
  /\ stored = [s \in Sessions |-> NoRecord]
  /\ starting = {} /\ usable = {}
  /\ up = FALSE /\ mapped = {}
  /\ pc = [a \in Actors |-> "idle"]
  /\ copy = [a \in Actors |-> NoRecord]
  /\ target \in Sessions
  /\ badStream = {} /\ todo = {}
  /\ nextRun = 1
  /\ launched = {} /\ cleaned = {}
  /\ fate = [s \in Sessions |-> "whole"]

-----------------------------------------------------------------------------
(* Steps the actors share.                                                 *)

Goto(a, next) == pc' = [pc EXCEPT ![a] = next]

(* Mutant: the record is written without its topic.                        *)
SaveWithoutTopic(a, rec) ==
  /\ copy' = [copy EXCEPT ![a] = rec]
  /\ stored' = [stored EXCEPT ![Of(a)] = [run |-> rec.run]]

(* SaveSession writes the actor's whole record.                            *)
Save(a, rec) ==
  /\ copy' = [copy EXCEPT ![a] = rec]
  /\ stored' = [stored EXCEPT ![Of(a)] = rec]

(* The actor is done.  Main's update is acknowledged.                      *)
Finish(a) ==
  /\ Goto(a, "idle")
  /\ copy' = [copy EXCEPT ![a] = NoRecord]
  /\ badStream' = badStream \ {a}
  /\ redo' = IF a = Main THEN NoUpdate ELSE redo

(* Where an actor is while the start of its session has not come to an end *)
(* on disk: "torn" is between the first save of the session and that of    *)
(* its run.                                                                *)
Launching == {"launchRun", "launchCard", "launchNotice"}
Starting == {"turn", "saveStart", "saveStartFailure"}

StartUnderWay(s) ==
  \/ pc[Main] \in Launching /\ target = s
  \/ pc[s] \in Starting

CutShort(S) ==
  fate' = [s \in Sessions |->
             IF s \notin S \/ ~StartUnderWay(s) THEN fate[s]
             ELSE IF pc[Main] = "launchRun" /\ target = s THEN "torn" ELSE "cut"]

(* The process ends; what is in memory is gone.                            *)
Exit ==
  /\ up
  /\ up' = FALSE /\ mapped' = {}
  /\ pc' = [a \in Actors |-> "idle"]
  /\ copy' = [a \in Actors |-> NoRecord]
  /\ badStream' = {} /\ todo' = {}
  /\ CutShort(Sessions)
  /\ UNCHANGED <<telegram, stored, runs, target, nextRun, launched, cleaned>>

-----------------------------------------------------------------------------
(* launchDraftSession                                                      *)

(* The wizard's task is given and the topic created.  A failure to create  *)
(* it is reported and changes nothing.                                     *)
Launch(s) ==
  /\ up /\ pc[Main] = "idle" /\ redo = NoUpdate
  /\ s \notin launched
  /\ nextRun <= MaxRun
  /\ launched' = launched \cup {s}
  /\ topics' = topics \cup {s}
  /\ target' = s
  /\ copy' = [copy EXCEPT ![Main] = [run |-> nextRun, routed |-> TRUE]]
  /\ nextRun' = nextRun + 1
  /\ Goto(Main, "launchSession")
  /\ UNCHANGED <<redo, stored, runs, up, mapped, badStream, todo, fate, cleaned>>

LaunchSaveSession ==
  /\ pc[Main] = "launchSession"
  /\ Save(Main, copy[Main])
  /\ Goto(Main, "launchRun")
  /\ UNCHANGED <<telegram, runs, up, mapped, target, badStream, todo, nextRun, history>>

LaunchSaveRun ==
  /\ pc[Main] = "launchRun"
  /\ starting' = starting \cup {copy[Main].run}
  /\ Goto(Main, "launchCard")
  /\ UNCHANGED <<telegram, stored, usable, up, mapped, copy, target, badStream, todo,
                 nextRun, history>>

(* The header card is posted, or the topic turned out to be gone and the   *)
(* session was retired (SaveCopy and TopicGone below): go on either way.   *)
LaunchMap ==
  /\ pc[Main] = "launchCard"
  /\ mapped' = mapped \cup {target}
  /\ Goto(Main, "launchNotice")
  /\ UNCHANGED <<telegram, stored, runs, up, copy, target, badStream, todo, nextRun, history>>

(* "Session started" is posted and the start goroutine begins, with its    *)
(* own copy of the record.                                                 *)
LaunchStarts ==
  /\ pc[Main] = "launchNotice"
  /\ pc' = [pc EXCEPT ![Main] = "idle", ![target] = "turn"]
  /\ copy' = [copy EXCEPT ![Main] = NoRecord, ![target] = copy[Main]]
  /\ UNCHANGED <<telegram, stored, runs, up, mapped, target, badStream, todo, nextRun, history>>

(* A save, the card or the notice fails: launchDraftSession returns the    *)
(* error, handleGeneralDraftText reports "launch failed" and nothing that  *)
(* was done is undone.                                                     *)
LaunchAborts ==
  /\ pc[Main] \in Launching \cup {"launchSession"}
  /\ CutShort({target})
  /\ Finish(Main)
  /\ UNCHANGED <<topics, stored, runs, up, mapped, target, todo, nextRun, launched, cleaned>>

-----------------------------------------------------------------------------
(* handleSessionTopic, up to the provider turn.                            *)

(* A message in the topic of s: a new one, or the one whose handling the   *)
(* last process did not finish.  A topic without a mapping is ignored.     *)
(* The message may have waited at Telegram since before the topic was      *)
(* deleted.                                                                *)
Message(s) ==
  /\ up /\ pc[Main] = "idle"
  /\ nextRun <= MaxRun \/ s \notin mapped \/ stored[s].run \notin usable
  /\ redo \in {NoUpdate, [kind |-> "message", on |-> {s}]}
  /\ s \in launched
  /\ IF s \in mapped
       THEN /\ redo' = [kind |-> "message", on |-> {s}]
            /\ target' = s
            /\ copy' = [copy EXCEPT ![Main] = stored[s]]
            /\ Goto(Main, "lookup")
       ELSE /\ redo' = NoUpdate
            /\ UNCHANGED <<target, copy, pc>>
  /\ UNCHANGED <<topics, stored, runs, up, mapped, badStream, todo, nextRun, history>>

(* LoadSession or LoadRun finds nothing, or the answer "still starting"    *)
(* cannot be sent: the error ends the daemon, and the message will be      *)
(* handled again.                                                          *)
MessageFatal ==
  /\ pc[Main] = "lookup" /\ copy[Main].run \notin usable
  /\ Exit

(* "Session is still starting; try again shortly."                         *)
StillStarting ==
  /\ pc[Main] = "lookup" /\ copy[Main].run \in starting
  /\ target \in topics
  /\ Finish(Main)
  /\ UNCHANGED <<topics, stored, runs, up, mapped, target, todo, nextRun, history>>

ResumeBegins ==
  /\ pc[Main] = "lookup" /\ copy[Main].run \in usable
  /\ Goto(Main, "turn")
  /\ UNCHANGED <<telegram, stored, runs, up, mapped, copy, target, badStream, todo,
                 nextRun, history>>

-----------------------------------------------------------------------------
(* Provider turns: the start goroutine's first turn and Main's resume      *)
(* ("turn", streamed) and a support auto-reply ("reply", not streamed).    *)

(* Events of the stream or of the result are projected, a support decision *)
(* is applied, a header card is created: the whole copy is saved.          *)
SavesCopy == {"turn", "deliver", "notify", "launchCard"}

SaveCopy(a) ==
  /\ pc[a] \in SavesCopy
  /\ Save(a, copy[a])
  /\ UNCHANGED <<telegram, runs, up, mapped, pc, target, badStream, todo, nextRun, history>>

(* Mutant: every error of a send counts as a topic that is gone.           *)
TopicGoneOnAnyError(a) ==
  /\ pc[a] \in SavesCopy
  /\ mapped' = IF copy[a].routed THEN mapped \ {Of(a)} ELSE mapped
  /\ Save(a, [copy[a] EXCEPT !.routed = FALSE])
  /\ UNCHANGED <<telegram, runs, up, pc, target, badStream, todo, nextRun, history>>

(* Telegram says that the topic is gone: retireMissingSessionTopic drops   *)
(* the mapping if the copy still has one and saves the copy without the    *)
(* topic.  The caller continues as if the message had been sent.           *)
TopicGone(a) ==
  /\ pc[a] \in SavesCopy
  /\ Of(a) \notin topics
  /\ mapped' = IF copy[a].routed THEN mapped \ {Of(a)} ELSE mapped
  /\ Save(a, [copy[a] EXCEPT !.routed = FALSE])
  /\ UNCHANGED <<telegram, runs, up, pc, target, badStream, todo, nextRun, history>>

(* The retired record cannot be saved: the mapping is gone from memory all *)
(* the same.  A stream goes on; a start goroutine gives up.  (Main would   *)
(* end the daemon, as in ResumeGivesUp.)                                   *)
RetireUnsaved(a) ==
  /\ Of(a) \notin topics /\ copy[a].routed
  /\ mapped' = mapped \ {Of(a)}
  /\ \/ /\ pc[a] = "turn"
        /\ badStream' = badStream \cup {a}
        /\ copy' = [copy EXCEPT ![a].routed = FALSE]
        /\ UNCHANGED <<pc, redo>>
     \/ pc[a] \in {"deliver", "notify"} /\ a # Main /\ Finish(a)
  /\ UNCHANGED <<topics, stored, runs, up, target, todo, nextRun, history>>

(* Projecting or sending a streamed event fails: the observer remembers.   *)
StreamFails(a) ==
  /\ pc[a] = "turn"
  /\ badStream' = badStream \cup {a}
  /\ UNCHANGED <<telegram, stored, runs, up, mapped, pc, copy, target, todo, nextRun, history>>

(* The turn succeeds.  If its stream could not be delivered, the result is *)
(* dropped: a start is recorded as failed, a resume ends the daemon.       *)
TurnReturns(a) ==
  /\ pc[a] \in {"turn", "reply"}
  /\ Goto(a, IF pc[a] = "reply" THEN "saveRun"
             ELSE IF a \in badStream THEN "saveStartFailure"
             ELSE IF a = Main THEN "saveRun" ELSE "saveStart")
  /\ ~(a = Main /\ a \in badStream)
  /\ UNCHANGED <<telegram, stored, runs, up, mapped, copy, target, badStream, todo,
                 nextRun, history>>

ResumeUndelivered == pc[Main] = "turn" /\ Main \in badStream /\ Exit

(* The provider reports an error.                                          *)
TurnFails(a) ==
  /\ pc[a] \in {"turn", "reply"}
  /\ Goto(a, IF pc[a] = "turn" /\ a # Main THEN "saveStartFailure" ELSE "saveFailedRun")
  /\ UNCHANGED <<telegram, stored, runs, up, mapped, copy, target, badStream, todo,
                 nextRun, history>>

-----------------------------------------------------------------------------
(* What a turn leaves on disk.                                             *)

(* finishStart puts the ProviderSessionID into the run it was given.       *)
StartSavesRun(s) ==
  /\ pc[s] = "saveStart"
  /\ starting' = starting \ {copy[s].run}
  /\ usable' = usable \cup {copy[s].run}
  /\ Goto(s, "deliver")
  /\ UNCHANGED <<telegram, stored, up, mapped, copy, target, badStream, todo, nextRun, history>>

(* recordStartFailure saves that run again, without a ProviderSessionID.   *)
StartFailureSavesRun(s) ==
  /\ pc[s] = "saveStartFailure"
  /\ starting' = starting \cup {copy[s].run}
  /\ Goto(s, "saveFailedSession")
  /\ CutShort({s})
  /\ UNCHANGED <<telegram, stored, usable, up, mapped, copy, target, badStream, todo,
                 nextRun, launched, cleaned>>

(* Mutant: a failed run is saved without the ProviderSessionID.            *)
FailedRunForgetsProvider(a) ==
  /\ pc[a] \in {"saveRun", "saveFailedRun"}
  /\ IF pc[a] = "saveRun"
       THEN usable' = usable \cup {nextRun} /\ UNCHANGED starting
       ELSE starting' = starting \cup {nextRun} /\ UNCHANGED usable
  /\ copy' = [copy EXCEPT ![a].run = nextRun]
  /\ nextRun' = nextRun + 1
  /\ Goto(a, IF pc[a] = "saveRun" THEN "saveSession" ELSE "saveFailedSession")
  /\ UNCHANGED <<telegram, stored, up, mapped, target, badStream, todo, history>>

(* Mutant: a failed run is never saved, but the session points at it.      *)
FailedRunUnsaved(a) ==
  /\ pc[a] \in {"saveRun", "saveFailedRun"}
  /\ usable' = IF pc[a] = "saveRun" THEN usable \cup {nextRun} ELSE usable
  /\ copy' = [copy EXCEPT ![a].run = nextRun]
  /\ nextRun' = nextRun + 1
  /\ Goto(a, IF pc[a] = "saveRun" THEN "saveSession" ELSE "saveFailedSession")
  /\ UNCHANGED <<telegram, stored, starting, up, mapped, target, badStream, todo, history>>

(* A resume or an auto-reply is recorded as a run of its own; one that     *)
(* failed keeps the ProviderSessionID of the run before.                   *)
TurnSavesRun(a) ==
  /\ pc[a] \in {"saveRun", "saveFailedRun"}
  /\ usable' = usable \cup {nextRun}
  /\ copy' = [copy EXCEPT ![a].run = nextRun]
  /\ nextRun' = nextRun + 1
  /\ Goto(a, IF pc[a] = "saveRun" THEN "saveSession" ELSE "saveFailedSession")
  /\ UNCHANGED <<telegram, stored, starting, up, mapped, target, badStream, todo, history>>

TurnSavesSession(a) ==
  /\ pc[a] \in {"saveSession", "saveFailedSession"}
  /\ Save(a, copy[a])
  /\ Goto(a, IF pc[a] = "saveSession" THEN "deliver" ELSE "notify")
  /\ UNCHANGED <<telegram, runs, up, mapped, target, badStream, todo, nextRun, history>>

(* The result asks for an answer the support role may give: the provider   *)
(* is resumed once more.                                                   *)
AutoReply(a) ==
  /\ pc[a] = "deliver" /\ nextRun <= MaxRun
  /\ Goto(a, "reply")
  /\ UNCHANGED <<telegram, stored, runs, up, mapped, copy, target, badStream, todo,
                 nextRun, history>>

Delivered(a) ==
  /\ pc[a] \in {"deliver", "notify"}
  /\ Finish(a)
  /\ UNCHANGED <<topics, stored, runs, up, mapped, target, todo, nextRun, history>>

(* A store or Telegram call fails after the turn: the start goroutine      *)
(* gives up, Main returns the error and the daemon ends.                   *)
AfterTurn == {"saveStart", "saveStartFailure", "saveRun", "saveFailedRun", "saveSession",
              "saveFailedSession", "deliver", "notify"}

StartGivesUp(s) ==
  /\ pc[s] \in AfterTurn
  /\ Finish(s)
  /\ CutShort({s})
  /\ UNCHANGED <<topics, stored, runs, up, mapped, target, todo, nextRun, launched, cleaned>>

ResumeGivesUp == pc[Main] \in AfterTurn /\ Exit

-----------------------------------------------------------------------------
(* handleCleanupCallback.                                                  *)

(* A target as it is listed: the session, its active run, its topic.       *)
Listed(s) == [of |-> s, run |-> stored[s].run, routed |-> stored[s].routed]

(* One listed session, or all of them.                                     *)
Cleanup ==
  /\ up /\ pc[Main] = "idle"
  /\ redo.kind \in {"none", "cleanup"}
  /\ LET all == {s \in Sessions : Exists(s)}
     IN  \E S \in {all} \cup {{s} : s \in all} :
           /\ S # {}
           /\ redo.kind = "none" \/ S = redo.on \/ (redo.on = Sessions /\ S = all)
           /\ redo' = [kind |-> "cleanup", on |-> IF S = all THEN Sessions ELSE S]
           /\ todo' = {Listed(s) : s \in S}
  /\ Goto(Main, "cleanNext")
  /\ UNCHANGED <<topics, stored, runs, up, mapped, copy, target, badStream, nextRun, history>>

(* The target of a repeated cleanup is gone already.                       *)
CleanupNothing ==
  /\ up /\ pc[Main] = "idle" /\ redo.kind = "cleanup"
  /\ \A s \in redo.on : ~Exists(s)
  /\ redo' = NoUpdate
  /\ UNCHANGED <<topics, stored, runs, process, nextRun, history>>

(* Mutant: cleanup goes on although the topic could not be deleted.        *)
CleanTopicIgnoringErrors(t) ==
  /\ pc[Main] = "cleanNext" /\ t \in todo
  /\ topics' \in {topics, IF t.routed THEN topics \ {t.of} ELSE topics}
  /\ mapped' = IF t.routed THEN mapped \ {t.of} ELSE mapped
  /\ target' = t.of
  /\ copy' = [copy EXCEPT ![Main] = [run |-> t.run, routed |-> t.routed]]
  /\ todo' = todo \ {t}
  /\ Goto(Main, "cleanRun")
  /\ UNCHANGED <<redo, stored, runs, up, badStream, nextRun, history>>

(* The topic of the next target is deleted, or is gone already; then its   *)
(* mapping.  A retired session has neither.                                *)
CleanTopic(t) ==
  /\ pc[Main] = "cleanNext" /\ t \in todo
  /\ topics' = IF t.routed THEN topics \ {t.of} ELSE topics
  /\ mapped' = IF t.routed THEN mapped \ {t.of} ELSE mapped
  /\ target' = t.of
  /\ copy' = [copy EXCEPT ![Main] = [run |-> t.run, routed |-> t.routed]]
  /\ todo' = todo \ {t}
  /\ Goto(Main, "cleanRun")
  /\ UNCHANGED <<redo, stored, runs, up, badStream, nextRun, history>>

CleanRun ==
  /\ pc[Main] = "cleanRun"
  /\ starting' = starting \ {copy[Main].run}
  /\ usable' = usable \ {copy[Main].run}
  /\ Goto(Main, "cleanSession")
  /\ UNCHANGED <<telegram, stored, up, mapped, copy, target, badStream, todo, nextRun, history>>

(* Mutant: the record of a retired session is left behind.                 *)
CleanSessionKeepsRetired ==
  /\ pc[Main] = "cleanSession"
  /\ stored' = IF copy[Main].routed THEN [stored EXCEPT ![target] = NoRecord] ELSE stored
  /\ cleaned' = IF pc[target] = "idle" THEN cleaned \cup {target} ELSE cleaned
  /\ Goto(Main, "cleanNext")
  /\ UNCHANGED <<telegram, runs, up, mapped, copy, target, badStream, todo, nextRun,
                 launched, fate>>

(* Only the active run is deleted; older runs and the snapshot stay.       *)
CleanSession ==
  /\ pc[Main] = "cleanSession"
  /\ stored' = [stored EXCEPT ![target] = NoRecord]
  /\ cleaned' = IF pc[target] = "idle" THEN cleaned \cup {target} ELSE cleaned
  /\ Goto(Main, "cleanNext")
  /\ UNCHANGED <<telegram, runs, up, mapped, copy, target, badStream, todo, nextRun,
                 launched, fate>>

(* All targets are done, or one step failed and the rest is skipped.       *)
CleanupEnds ==
  /\ pc[Main] \in {"cleanNext", "cleanRun", "cleanSession"}
  /\ Finish(Main)
  /\ todo' = {}
  /\ UNCHANGED <<topics, stored, runs, up, mapped, target, nextRun, history>>

-----------------------------------------------------------------------------
(* The environment.                                                        *)

(* Someone deletes a forum topic.                                          *)
TopicVanishes(s) ==
  /\ s \in topics
  /\ topics' = topics \ {s}
  /\ UNCHANGED <<redo, stored, runs, process, nextRun, history>>

(* The process is killed, or Main's update fails otherwise.                *)
Crash == Exit

(* NewRuntime maps the topics of all listed sessions, or none when the     *)
(* list cannot be read.                                                    *)
Restart ==
  /\ ~up
  /\ up' = TRUE
  /\ mapped' \in {{}, {s \in Sessions : Exists(s) /\ stored[s].routed}}
  /\ UNCHANGED <<telegram, stored, runs, pc, copy, target, badStream, todo, nextRun, history>>

Next ==
  \/ Restart \/ Crash
  \/ LaunchSaveSession \/ LaunchSaveRun \/ LaunchMap \/ LaunchStarts \/ LaunchAborts
  \/ MessageFatal \/ StillStarting \/ ResumeBegins
  \/ ResumeUndelivered \/ ResumeGivesUp
  \/ Cleanup \/ CleanupNothing \/ CleanRun \/ CleanSession \/ CleanupEnds
  \/ \E t \in todo : CleanTopic(t)
  \/ \E s \in Sessions :
       \/ Launch(s) \/ Message(s) \/ TopicVanishes(s)
       \/ StartSavesRun(s) \/ StartFailureSavesRun(s) \/ StartGivesUp(s)
  \/ \E a \in Actors :
       \/ SaveCopy(a) \/ TopicGone(a) \/ RetireUnsaved(a) \/ StreamFails(a)
       \/ TurnReturns(a) \/ TurnFails(a)
       \/ TurnSavesRun(a) \/ TurnSavesSession(a) \/ AutoReply(a) \/ Delivered(a)

Spec == Init /\ [][Next]_vars

(* systemd restarts the daemon, a redelivered message is handled first,    *)
(* every call of its handling returns, and none that can succeed fails for *)
(* ever.                                                                   *)
FairSpec ==
  /\ Spec
  /\ WF_vars(Restart)
  /\ \A s \in Sessions : SF_vars(Message(s))
  /\ WF_vars(MessageFatal)
  /\ SF_vars(StillStarting) /\ SF_vars(ResumeBegins)
  /\ SF_vars(TurnReturns(Main)) /\ SF_vars(TurnSavesRun(Main))
  /\ SF_vars(TurnSavesSession(Main)) /\ SF_vars(Delivered(Main))

-----------------------------------------------------------------------------
(* Properties.                                                             *)

PCs == {"idle", "lookup", "turn", "saveStart", "saveStartFailure", "deliver", "reply",
        "saveRun", "saveSession", "saveFailedRun", "saveFailedSession", "notify",
        "launchSession", "launchRun", "launchCard", "launchNotice",
        "cleanNext", "cleanRun", "cleanSession"}

TypeOK ==
  /\ topics \subseteq Sessions
  /\ redo \in Updates
  /\ stored \in [Sessions -> Record]
  /\ starting \subseteq Nat /\ usable \subseteq Nat
  /\ up \in BOOLEAN
  /\ mapped \subseteq Sessions
  /\ pc \in [Actors -> PCs]
  /\ copy \in [Actors -> Record]
  /\ target \in Sessions
  /\ badStream \subseteq Actors
  /\ todo \subseteq [of : Sessions, run : Nat, routed : BOOLEAN]
  /\ nextRun \in Nat \ {0}
  /\ launched \subseteq Sessions
  /\ fate \in [Sessions -> {"whole", "cut", "torn"}]
  /\ cleaned \subseteq Sessions

(* A topic that exists and is mapped belongs to a session whose record is  *)
(* on disk and not retired: cleanup, retirement and the stale saves of the *)
(* two actors never leave a topic routed to nothing.                       *)
RoutedTopicHasRecord ==
  \A s \in mapped \cap topics : Exists(s) /\ stored[s].routed

(* A session whose topic exists, and whose start was not cut short, can be *)
(* resumed once its start is over: no interleaving of stale saves makes it *)
(* answer "still starting" again.                                          *)
WholeSessionAnswers ==
  \A s \in topics :
    Exists(s) /\ fate[s] = "whole" /\ ~StartUnderWay(s) => stored[s].run \in usable

(* The record of a session whose topic exists names a run that is on disk, *)
(* except in the one window of launchDraftSession between its two saves:   *)
(* only a launch cut there makes a message end the daemon in LoadRun.      *)
RunMissingOnlyIfTorn ==
  \A s \in topics :
    Exists(s) /\ ~RunExists(stored[s].run) =>
      fate[s] = "torn" \/ (pc[Main] = "launchRun" /\ target = s)

(* Once a session can be resumed it can be resumed for as long as its      *)
(* topic exists: a failed turn, a crash or a stale save never takes the    *)
(* provider session away from it.                                          *)
StaysUsable ==
  [][\A s \in Sessions :
       Exists(s) /\ stored[s].run \in usable /\ s \in topics'
         => stored'[s].run \in usable']_vars

(* A session cleaned up while no start goroutine of it runs never comes    *)
(* back, whatever is redelivered or restarted later.                       *)
QuietCleanupIsFinal == \A s \in cleaned : ~Exists(s)

(* internal/app/runtime_test.go, TestRuntimeHandleCleanupCallback...: a    *)
(* session that was cleaned up is gone.  Only its launch ever creates the  *)
(* record of a session.                                                    *)
OnlyLaunchCreates ==
  [][\A s \in Sessions :
       ~Exists(s) /\ stored'[s].run # 0 => pc[Main] = "launchSession" /\ target = s]_vars

(* internal/app/app_run_test.go, TestAppRunKeepsPollingWhenSessionTopicIs- *)
(* Gone: a message whose topic is gone does not stop the daemon.  When the *)
(* session has no provider session yet, the message is settled all the     *)
(* same, or the session gets one.                                          *)
KeepsPollingWithoutTopic ==
  \A s \in Sessions :
    redo = [kind |-> "message", on |-> {s}] /\ s \notin topics /\ stored[s].run \in starting
      ~> redo = NoUpdate \/ stored[s].run \notin starting

=============================================================================
