---------------------- MODULE SessionLifecycle_proofs ----------------------
(***************************************************************************)
(* The safety properties of SessionLifecycle for any number of sessions    *)
(* and runs.  The inductive invariant IInv says three things: who may be   *)
(* at work on a session at the same time, that a run belongs to one        *)
(* session, and that two actors with copies of one record disagree about   *)
(* its run only when either run would do.                                  *)
(***************************************************************************)
EXTENDS SessionLifecycle, TLAPS

USE SomeSession, MainIsNoSession, MaxRunIsNatural
USE DEF vars, telegram, runs, process, history, Actors

-----------------------------------------------------------------------------
(* The state before the first start of the daemon is well typed.           *)
LEMMA InitTypeOK == Init => TypeOK
<1>. SUFFICES ASSUME Init PROVE TypeOK OBVIOUS
<1>1. NoRecord \in Record BY DEF NoRecord, Record
<1>2. stored \in [Sessions -> Record] /\ copy \in [Actors -> Record] BY <1>1 DEF Init
<1>3. redo \in Updates BY DEF Init, NoUpdate, Updates
<1>4. pc \in [Actors -> PCs] BY DEF Init, PCs
<1>5. fate \in [Sessions -> {"whole", "cut", "torn"}] BY DEF Init
<1>6. /\ topics = {} /\ starting = {} /\ usable = {} /\ mapped = {} /\ badStream = {} /\ todo = {}
      /\ launched = {} /\ cleaned = {}
  BY DEF Init
<1>7. target \in Sessions /\ nextRun = 1 BY DEF Init
<1>8. up \in BOOLEAN BY Zenon DEF Init
<1>. QED BY <1>2, <1>3, <1>4, <1>5, <1>6, <1>7, <1>8 DEF TypeOK

(* An actor works on a session.                                            *)
LEMMA OfType == ASSUME TypeOK, NEW a \in Actors PROVE Of(a) \in Sessions
BY DEF TypeOK, Of

(* CutShort writes a fate for every session.                               *)
LEMMA CutTypes == ASSUME TypeOK, NEW S, CutShort(S)
  PROVE fate' \in [Sessions -> {"whole", "cut", "torn"}]
BY DEF TypeOK, CutShort

(* What the end of the process leaves is well typed.                       *)
LEMMA ExitTypes == ASSUME TypeOK, Exit PROVE TypeOK'
<1>1. fate' \in [Sessions -> {"whole", "cut", "torn"}] BY CutTypes DEF Exit
<1>. QED BY <1>1 DEF Exit, TypeOK, NoRecord, Record, PCs

(* The same of an actor that is done,                                      *)
LEMMA FinishTypes == ASSUME TypeOK, NEW a \in Actors, Finish(a)
  PROVE /\ pc' \in [Actors -> PCs] /\ copy' \in [Actors -> Record]
        /\ badStream' \subseteq Actors /\ redo' \in Updates
BY DEF Finish, TypeOK, Goto, PCs, NoRecord, Record, NoUpdate, Updates

(* and of SaveSession.                                                     *)
LEMMA SaveTypes == ASSUME TypeOK, NEW a \in Actors, NEW rec \in Record, Save(a, rec)
  PROVE copy' \in [Actors -> Record] /\ stored' \in [Sessions -> Record]
BY OfType DEF Save, TypeOK

(* The type invariant, for the steps of a launch,                          *)
LEMMA LaunchTypes ==
  ASSUME TypeOK,
         \/ \E s \in Sessions : Launch(s)
         \/ LaunchSaveSession \/ LaunchSaveRun \/ LaunchMap \/ LaunchStarts \/ LaunchAborts
  PROVE  TypeOK'
<1>. USE DEF TypeOK, Goto, PCs
<1>1. ASSUME NEW s \in Sessions, Launch(s) PROVE TypeOK'
  <2>1. [run |-> nextRun, routed |-> TRUE] \in Record BY DEF Record
  <2>2. copy' \in [Actors -> Record] BY <1>1, <2>1 DEF Launch
  <2>3. nextRun' \in Nat \ {0} BY <1>1 DEF Launch
  <2>4. pc' \in [Actors -> PCs] BY <1>1 DEF Launch
  <2>. QED BY <1>1, <2>2, <2>3, <2>4 DEF Launch
<1>2. CASE LaunchSaveSession
  <2>1. copy[Main] \in Record /\ Save(Main, copy[Main]) BY <1>2 DEF LaunchSaveSession
  <2>. QED BY <1>2, <2>1, SaveTypes DEF LaunchSaveSession
<1>3. CASE LaunchSaveRun
  <2>1. copy[Main] \in Record OBVIOUS
  <2>2. starting' \subseteq Nat BY <1>3, <2>1 DEF LaunchSaveRun, Record
  <2>. QED BY <1>3, <2>2 DEF LaunchSaveRun
<1>4. CASE LaunchMap BY <1>4 DEF LaunchMap
<1>5. CASE LaunchStarts BY <1>5 DEF LaunchStarts, NoRecord, Record
<1>6. CASE LaunchAborts BY <1>6, CutTypes, FinishTypes DEF LaunchAborts
<1>. QED BY <1>1, <1>2, <1>3, <1>4, <1>5, <1>6

(* of a message up to its turn,                                            *)
LEMMA MessageTypes ==
  ASSUME TypeOK,
         \/ \E s \in Sessions : Message(s)
         \/ MessageFatal \/ StillStarting \/ ResumeBegins \/ ResumeUndelivered \/ ResumeGivesUp
  PROVE  TypeOK'
<1>. USE DEF TypeOK, Goto, PCs
<1>1. ASSUME NEW s \in Sessions, Message(s) PROVE TypeOK'
  BY <1>1 DEF Message, Updates, NoUpdate
<1>2. CASE MessageFatal \/ ResumeUndelivered \/ ResumeGivesUp
  BY <1>2, ExitTypes DEF MessageFatal, ResumeUndelivered, ResumeGivesUp
<1>3. CASE StillStarting BY <1>3, FinishTypes DEF StillStarting
<1>4. CASE ResumeBegins BY <1>4 DEF ResumeBegins
<1>. QED BY <1>1, <1>2, <1>3, <1>4

(* of the turns and what follows them,                                     *)
LEMMA TurnTypes ==
  ASSUME TypeOK, NEW a \in Actors,
         \/ SaveCopy(a) \/ TopicGone(a) \/ RetireUnsaved(a) \/ StreamFails(a)
         \/ TurnReturns(a) \/ TurnFails(a)
         \/ TurnSavesRun(a) \/ TurnSavesSession(a) \/ AutoReply(a) \/ Delivered(a)
  PROVE  TypeOK'
<1>. USE DEF TypeOK, Goto, PCs
<1>0. /\ copy[a] \in Record
      /\ [copy[a] EXCEPT !.routed = FALSE] \in Record /\ [copy[a] EXCEPT !.run = nextRun] \in Record
      /\ [copy EXCEPT ![a].routed = FALSE] \in [Actors -> Record]
      /\ [copy EXCEPT ![a].run = nextRun] \in [Actors -> Record]
  <2>1. copy[a] \in Record OBVIOUS
  <2>2. [copy[a] EXCEPT !.routed = FALSE] \in Record BY <2>1 DEF Record
  <2>3. [copy[a] EXCEPT !.run = nextRun] \in Record BY <2>1 DEF Record
  <2>. QED BY <2>1, <2>2, <2>3
<1>1. CASE SaveCopy(a) BY <1>0, <1>1, SaveTypes DEF SaveCopy
<1>2. CASE TopicGone(a) BY <1>0, <1>2, SaveTypes DEF TopicGone
<1>3. CASE RetireUnsaved(a)
  <2>1. CASE pc[a] = "turn"
    <3>1. copy' \in [Actors -> Record] /\ pc' = pc BY <1>0, <1>3, <2>1 DEF RetireUnsaved
    <3>. QED BY <1>3, <2>1, <3>1 DEF RetireUnsaved
  <2>2. CASE pc[a] # "turn"
    <3>1. Finish(a) BY <1>3, <2>2 DEF RetireUnsaved
    <3>. QED BY <1>3, <3>1, FinishTypes DEF RetireUnsaved
  <2>. QED BY <2>1, <2>2
<1>4. CASE StreamFails(a)
  <2>1. badStream' \subseteq Actors BY <1>4 DEF StreamFails
  <2>. QED BY <1>4, <2>1 DEF StreamFails
<1>5. CASE TurnReturns(a) \/ TurnFails(a) \/ AutoReply(a)
  <2>1. pc' \in [Actors -> PCs] BY <1>5 DEF TurnReturns, TurnFails, AutoReply
  <2>. QED BY <1>5, <2>1 DEF TurnReturns, TurnFails, AutoReply
<1>6. CASE TurnSavesRun(a)
  <2>1. copy' \in [Actors -> Record] BY <1>0, <1>6 DEF TurnSavesRun
  <2>2. pc' \in [Actors -> PCs] BY <1>6 DEF TurnSavesRun
  <2>. QED BY <1>6, <2>1, <2>2 DEF TurnSavesRun
<1>7. CASE TurnSavesSession(a) BY <1>0, <1>7, SaveTypes DEF TurnSavesSession
<1>8. CASE Delivered(a) BY <1>8, FinishTypes DEF Delivered
<1>. QED BY <1>1, <1>2, <1>3, <1>4, <1>5, <1>6, <1>7, <1>8

(* of the start goroutine alone,                                           *)
LEMMA StartTypes ==
  ASSUME TypeOK, NEW s \in Sessions,
         StartSavesRun(s) \/ StartFailureSavesRun(s) \/ StartGivesUp(s) \/ TopicVanishes(s)
  PROVE  TypeOK'
<1>. USE DEF TypeOK, Goto, PCs
<1>1. CASE StartSavesRun(s) BY <1>1 DEF StartSavesRun, Record
<1>2. CASE StartFailureSavesRun(s) BY <1>2, CutTypes DEF StartFailureSavesRun, Record
<1>3. CASE StartGivesUp(s) BY <1>3, CutTypes, FinishTypes DEF StartGivesUp
<1>4. CASE TopicVanishes(s) BY <1>4 DEF TopicVanishes
<1>. QED BY <1>1, <1>2, <1>3, <1>4

(* of a cleanup,                                                           *)
LEMMA CleanTypes ==
  ASSUME TypeOK,
         Cleanup \/ CleanupNothing \/ (\E t \in todo : CleanTopic(t)) \/ CleanRun \/ CleanSession
           \/ CleanupEnds
  PROVE  TypeOK'
<1>. USE DEF TypeOK, Goto, PCs
<1>1. CASE Cleanup BY <1>1 DEF Cleanup, Listed, Record, Updates
<1>2. CASE CleanupNothing BY <1>2 DEF CleanupNothing, NoUpdate, Updates
<1>3. ASSUME NEW t \in todo, CleanTopic(t) PROVE TypeOK' BY <1>3 DEF CleanTopic, Record
<1>4. CASE CleanRun BY <1>4 DEF CleanRun
<1>5. CASE CleanSession BY <1>5 DEF CleanSession, NoRecord, Record
<1>6. CASE CleanupEnds BY <1>6, FinishTypes DEF CleanupEnds
<1>. QED BY <1>1, <1>2, <1>3, <1>4, <1>5, <1>6

(* and for every step.                                                     *)
LEMMA StepTypeOK == TypeOK /\ [Next]_vars => TypeOK'
<1>. SUFFICES ASSUME TypeOK, [Next]_vars PROVE TypeOK' OBVIOUS
<1>1. CASE Restart BY <1>1 DEF Restart, TypeOK
<1>2. CASE Crash BY <1>2, ExitTypes DEF Crash
<1>3. CASE UNCHANGED vars BY <1>3 DEF TypeOK
<1>. QED BY <1>1, <1>2, <1>3, LaunchTypes, MessageTypes, TurnTypes, StartTypes, CleanTypes DEF Next

-----------------------------------------------------------------------------
(* The inductive invariant.                                                *)

LaunchPCs == Launching \cup {"launchSession"}
CleanPCs == {"cleanNext", "cleanRun", "cleanSession"}
StartPCs == {"idle", "turn", "saveStart", "saveStartFailure", "deliver", "reply", "saveRun",
             "saveSession", "saveFailedRun", "saveFailedSession", "notify"}

(* The actor is at work on a record: its copy will be written, or becomes   *)
(* that of a start goroutine.                                               *)
Works(a) == pc[a] \notin {"idle"} \cup CleanPCs

(* Main never runs the steps of a start, a start goroutine only those of a  *)
(* turn.                                                                    *)
Places ==
  /\ pc[Main] \notin {"saveStart", "saveStartFailure"}
  /\ \A s \in Sessions : pc[s] \in StartPCs

(* Run 0 is no run, and whoever is past looking a record up has one.        *)
WorkersHaveRuns ==
  /\ 0 \notin starting /\ 0 \notin usable
  /\ \A a \in Actors : Works(a) /\ pc[a] # "lookup" => copy[a].run # 0

(* Session s knows of run r: in its record, in the copy of an actor that    *)
(* works on s, or in a cleanup target.                                      *)
Holds(s, r) ==
  \/ stored[s].run = r
  \/ \E a \in Actors : Of(a) = s /\ copy[a].run = r
  \/ \E t \in todo : t.of = s /\ t.run = r

(* No two sessions ever know of the same run.                               *)
RunsAreOwned ==
  \A s \in Sessions : \A r \in Nat \ {0} :
    Holds(s, r) => r < nextRun /\ \A q \in Sessions : Holds(q, r) => q = s

(* Nothing is left of a session before its launch.                          *)
Untouched ==
  \A s \in Sessions \ launched :
    /\ s \notin topics /\ s \notin mapped /\ s \notin cleaned /\ ~Exists(s)
    /\ pc[s] = "idle" /\ fate[s] = "whole"
    /\ target = s => pc[Main] \in {"idle", "cleanNext"}
    /\ \A t \in todo : t.of # s

(* During a launch nobody else works on the session.                        *)
LaunchIsAlone ==
  pc[Main] \in LaunchPCs =>
    /\ pc[target] = "idle" /\ target \notin cleaned /\ fate[target] = "whole"
    /\ Exists(target) <=> pc[Main] # "launchSession"

UnderWayIsWhole == \A s \in Sessions : StartUnderWay(s) => fate[s] = "whole"

(* As long as the topic of a session exists, neither the record nor any     *)
(* copy of it has lost the topic.                                           *)
RoutedWhileTopic ==
  /\ \A s \in topics : Exists(s) => stored[s].routed
  /\ \A a \in Actors : Of(a) \in topics /\ Works(a) => copy[a].routed
  /\ \A t \in todo : t.of \in topics => t.routed
  /\ pc[Main] \in {"cleanRun", "cleanSession"} => target \notin topics

MappedExists == \A s \in mapped \cap topics : Exists(s)

(* A session with a topic and no record is about to get it: only its        *)
(* launch is at work on it.                                                 *)
NotYetThere ==
  \A s \in topics : ~Exists(s) =>
    /\ pc[s] = "idle"
    /\ Works(Main) /\ target = s => pc[Main] = "launchSession"

(* The steps of an actor that has not seen its session answer.              *)
Unanswered(a) ==
  pc[a] \in IF a = Main THEN Launching \cup {"lookup"}
                        ELSE Starting \cup {"saveFailedSession", "notify"}

(* Two runs of one session differ only when both can be resumed: a stale    *)
(* save takes nothing away.                                                 *)
SameRun ==
  \A a \in Actors :
    Of(a) \in topics /\ Exists(Of(a)) /\ Works(a)
      /\ (stored[Of(a)].run \notin usable \/ copy[a].run \notin usable)
    => copy[a].run = stored[Of(a)].run /\ Unanswered(a)

(* Nobody is left to write the record of a session that was cleaned up      *)
(* while no start goroutine of it ran.                                      *)
CleanedIsGone ==
  \A s \in cleaned :
    /\ ~Exists(s) /\ pc[s] = "idle"
    /\ Works(Main) /\ target = s => pc[Main] = "lookup" /\ copy[Main].run = 0

IInv ==
  /\ TypeOK /\ Places /\ WorkersHaveRuns /\ RunsAreOwned /\ Untouched /\ LaunchIsAlone
  /\ UnderWayIsWhole /\ RoutedWhileTopic /\ MappedExists /\ NotYetThere /\ SameRun
  /\ CleanedIsGone /\ WholeSessionAnswers /\ RunMissingOnlyIfTorn

-----------------------------------------------------------------------------
(* The steps of Next, grouped.                                             *)

Stops == Restart \/ Exit
LaunchStep == LaunchSaveSession \/ LaunchSaveRun \/ LaunchMap \/ LaunchStarts \/ LaunchAborts
LookupStep == StillStarting \/ ResumeBegins
CleanStep == Cleanup \/ CleanupNothing \/ CleanRun \/ CleanSession \/ CleanupEnds
UserStep(s) == Launch(s) \/ Message(s) \/ TopicVanishes(s)
StartStep(s) == StartSavesRun(s) \/ StartFailureSavesRun(s) \/ StartGivesUp(s)
StreamStep(a) == SaveCopy(a) \/ TopicGone(a) \/ RetireUnsaved(a) \/ StreamFails(a)
TurnStep(a) == TurnReturns(a) \/ TurnFails(a) \/ AutoReply(a)
AfterStep(a) == TurnSavesRun(a) \/ TurnSavesSession(a) \/ Delivered(a)

(* Nothing else happens: the errors that end the daemon are Exit.          *)
LEMMA NextSteps ==
  ASSUME [Next]_vars
  PROVE  \/ Stops \/ LaunchStep \/ LookupStep \/ CleanStep \/ UNCHANGED vars
         \/ \E t \in todo : CleanTopic(t)
         \/ \E s \in Sessions : UserStep(s) \/ StartStep(s)
         \/ \E a \in Actors : StreamStep(a) \/ TurnStep(a) \/ AfterStep(a)
BY DEF Next, Stops, LaunchStep, LookupStep, CleanStep, UserStep, StartStep, StreamStep, TurnStep,
       AfterStep, Crash, MessageFatal, ResumeUndelivered, ResumeGivesUp

-----------------------------------------------------------------------------
(* Each part of the invariant is kept.                                     *)

(* When the retired record cannot be saved no run changes hands.           *)
LEMMA RetireKeepsRuns ==
  ASSUME TypeOK, NEW a \in Actors, RetireUnsaved(a), NEW b \in Actors
  PROVE  copy'[b].run = copy[b].run \/ (pc'[b] = "idle" /\ copy'[b].run = 0)
BY DEF TypeOK, RetireUnsaved, Finish, Goto, NoRecord, Record

(* Cleanup takes a run only from a session whose topic it has deleted.     *)
LEMMA CleanRunSpares ==
  ASSUME TypeOK, WorkersHaveRuns, RunsAreOwned, RoutedWhileTopic, CleanRun,
         NEW s \in topics, NEW r \in Nat, Holds(s, r)
  PROVE  (r \in usable => r \in usable') /\ (r \in starting => r \in starting')
BY DEF CleanRun, RunsAreOwned, Holds, RoutedWhileTopic, WorkersHaveRuns, TypeOK, Record, Of

(* Only a start goroutine records a start, and it never leaves the steps of a turn. *)
LEMMA PlacesStep ==
  ASSUME TypeOK, Places, [Next]_vars
  PROVE  Places'
<1>. USE DEF TypeOK, Places, StartPCs
<1>1. CASE Stops
  BY <1>1 DEF Stops, Restart, Exit, NoRecord, Exists
<1>2. CASE LaunchStep
  BY <1>2 DEF LaunchStep, LaunchSaveSession, LaunchSaveRun, LaunchMap, LaunchStarts,
       LaunchAborts, Finish, NoRecord, Goto, Save, Of
<1>3. CASE LookupStep
  BY <1>3 DEF LookupStep, StillStarting, ResumeBegins, Goto, Finish, NoRecord
<1>4. CASE CleanStep
  BY <1>4 DEF CleanStep, Cleanup, CleanupNothing, CleanRun, CleanSession, CleanupEnds, Finish,
       NoRecord, Goto, Exists
<1>5. ASSUME NEW t \in todo, CleanTopic(t) PROVE Places'
  BY <1>5 DEF CleanTopic, Goto
<1>6. ASSUME NEW s \in Sessions, UserStep(s) PROVE Places'
  BY <1>6 DEF UserStep, Launch, Message, TopicVanishes, Goto
<1>7. ASSUME NEW s \in Sessions, StartStep(s) PROVE Places'
  BY <1>7 DEF StartStep, StartSavesRun, StartFailureSavesRun, StartGivesUp, Finish, NoRecord,
       Goto, AfterTurn
<1>8. ASSUME NEW a \in Actors, StreamStep(a) PROVE Places'
  BY <1>8 DEF StreamStep, SaveCopy, TopicGone, RetireUnsaved, StreamFails, Finish, NoRecord,
       Goto, Of, Save, SavesCopy
<1>9. ASSUME NEW a \in Actors, TurnStep(a) PROVE Places'
  BY <1>9 DEF TurnStep, TurnReturns, TurnFails, AutoReply, Goto
<1>10. ASSUME NEW a \in Actors, AfterStep(a) PROVE Places'
  BY <1>10 DEF AfterStep, TurnSavesRun, TurnSavesSession, Delivered, Finish, NoRecord, Goto,
       Save, Of
<1>11. CASE UNCHANGED vars BY <1>11 DEF vars
<1>. QED BY <1>1, <1>2, <1>3, <1>4, <1>5, <1>6, <1>7, <1>8, <1>9, <1>10, <1>11, NextSteps

(* finishStart and the saves of a turn only ever handle real run ids; cleanup *)
(* of a record that is gone takes no run away.                             *)
LEMMA WorkersHaveRunsStep ==
  ASSUME TypeOK, WorkersHaveRuns, [Next]_vars
  PROVE  WorkersHaveRuns'
<1>. USE DEF TypeOK, WorkersHaveRuns, CleanPCs, Works
<1>1. CASE Stops
  BY <1>1 DEF Stops, Restart, Exit, NoRecord, Exists
<1>2. CASE LaunchStep
  BY <1>2 DEF LaunchStep, LaunchSaveSession, LaunchSaveRun, LaunchMap, LaunchStarts,
       LaunchAborts, Finish, NoRecord, Goto, Save, Of
<1>3. CASE LookupStep
  BY <1>3 DEF LookupStep, StillStarting, ResumeBegins, Goto, Finish, NoRecord
<1>4. CASE CleanStep
  BY <1>4 DEF CleanStep, Cleanup, CleanupNothing, CleanRun, CleanSession, CleanupEnds, Finish,
       NoRecord, Goto, Exists
<1>5. ASSUME NEW t \in todo, CleanTopic(t) PROVE WorkersHaveRuns'
  BY <1>5 DEF CleanTopic, Goto
<1>6. ASSUME NEW s \in Sessions, UserStep(s) PROVE WorkersHaveRuns'
  BY <1>6 DEF UserStep, Launch, Message, TopicVanishes, Goto
<1>7. ASSUME NEW s \in Sessions, StartStep(s) PROVE WorkersHaveRuns'
  BY <1>7 DEF StartStep, StartSavesRun, StartFailureSavesRun, StartGivesUp, Finish, NoRecord,
       Goto, AfterTurn
<1>8. ASSUME NEW a \in Actors, StreamStep(a) PROVE WorkersHaveRuns'
  <2>1. CASE SaveCopy(a)
    BY <2>1 DEF SaveCopy, Save, Of, SavesCopy
  <2>2. CASE TopicGone(a)
    BY <2>2 DEF TopicGone, Save, Of, SavesCopy
  <2>3. CASE RetireUnsaved(a)
    <3>1. pc' = pc \/ pc' = [pc EXCEPT ![a] = "idle"] BY <2>3 DEF RetireUnsaved, Finish, Goto
    <3>2. starting' = starting /\ usable' = usable BY <2>3 DEF RetireUnsaved
    <3>. QED BY <2>3, <3>1, <3>2, RetireKeepsRuns
  <2>4. CASE StreamFails(a)
    BY <2>4 DEF StreamFails
  <2>. QED BY <1>8, <2>1, <2>2, <2>3, <2>4 DEF StreamStep
<1>9. ASSUME NEW a \in Actors, TurnStep(a) PROVE WorkersHaveRuns'
  BY <1>9 DEF TurnStep, TurnReturns, TurnFails, AutoReply, Goto
<1>10. ASSUME NEW a \in Actors, AfterStep(a) PROVE WorkersHaveRuns'
  <2>1. CASE TurnSavesRun(a)
    BY <2>1 DEF TurnSavesRun, Goto
  <2>2. CASE TurnSavesSession(a)
    BY <2>2 DEF TurnSavesSession, Goto, Save, Of
  <2>3. CASE Delivered(a)
    BY <2>3 DEF Delivered, Finish, NoRecord, Goto
  <2>. QED BY <1>10, <2>1, <2>2, <2>3 DEF AfterStep
<1>11. CASE UNCHANGED vars BY <1>11 DEF vars
<1>. QED BY <1>1, <1>2, <1>3, <1>4, <1>5, <1>6, <1>7, <1>8, <1>9, <1>10, <1>11, NextSteps

(* Run ids are fresh, and an id only travels between the record of one session, *)
(* the copies of it and the cleanup targets listed from it.                *)
LEMMA RunsAreOwnedStep ==
  ASSUME TypeOK, RunsAreOwned, [Next]_vars
  PROVE  RunsAreOwned'
<1>. USE DEF TypeOK, RunsAreOwned, Of, Holds
<1>1. CASE Stops
  BY <1>1 DEF Stops, Restart, Exit, NoRecord, Exists
<1>2. CASE LaunchStep
  BY <1>2 DEF LaunchStep, LaunchSaveSession, LaunchSaveRun, LaunchMap, LaunchStarts,
       LaunchAborts, Finish, NoRecord, Save
<1>3. CASE LookupStep
  BY <1>3 DEF LookupStep, StillStarting, ResumeBegins, Finish, NoRecord
<1>4. CASE CleanStep
  BY <1>4 DEF CleanStep, Cleanup, CleanupNothing, CleanRun, CleanSession, CleanupEnds, Finish,
       NoRecord, Exists, Listed
<1>5. ASSUME NEW t \in todo, CleanTopic(t) PROVE RunsAreOwned'
  BY <1>5 DEF CleanTopic
<1>6. ASSUME NEW s \in Sessions, UserStep(s) PROVE RunsAreOwned'
  BY <1>6 DEF UserStep, Launch, Message, TopicVanishes
<1>7. ASSUME NEW s \in Sessions, StartStep(s) PROVE RunsAreOwned'
  BY <1>7 DEF StartStep, StartSavesRun, StartFailureSavesRun, StartGivesUp, Finish, NoRecord,
       AfterTurn
<1>8. ASSUME NEW a \in Actors, StreamStep(a) PROVE RunsAreOwned'
  <2>1. CASE SaveCopy(a)
    BY <2>1 DEF SaveCopy, Save, SavesCopy
  <2>2. CASE TopicGone(a)
    BY <2>2 DEF TopicGone, Save, SavesCopy
  <2>3. CASE RetireUnsaved(a)
    <3>1. \A s \in Sessions : \A r \in Nat \ {0} : Holds(s, r)' => Holds(s, r)
      BY <2>3, RetireKeepsRuns DEF RetireUnsaved, Record
    <3>2. nextRun' = nextRun BY <2>3 DEF RetireUnsaved
    <3>. QED BY <3>1, <3>2
  <2>4. CASE StreamFails(a)
    BY <2>4 DEF StreamFails
  <2>. QED BY <1>8, <2>1, <2>2, <2>3, <2>4 DEF StreamStep
<1>9. ASSUME NEW a \in Actors, TurnStep(a) PROVE RunsAreOwned'
  BY <1>9 DEF TurnStep, TurnReturns, TurnFails, AutoReply
<1>10. ASSUME NEW a \in Actors, AfterStep(a) PROVE RunsAreOwned'
  <2>1. CASE TurnSavesRun(a)
    BY <2>1 DEF TurnSavesRun
  <2>2. CASE TurnSavesSession(a)
    BY <2>2 DEF TurnSavesSession, Save
  <2>3. CASE Delivered(a)
    BY <2>3 DEF Delivered, Finish, NoRecord
  <2>. QED BY <1>10, <2>1, <2>2, <2>3 DEF AfterStep
<1>11. CASE UNCHANGED vars BY <1>11 DEF vars
<1>. QED BY <1>1, <1>2, <1>3, <1>4, <1>5, <1>6, <1>7, <1>8, <1>9, <1>10, <1>11, NextSteps

(* A session id that launchDraftSession has not used appears nowhere.      *)
LEMMA UntouchedStep ==
  ASSUME TypeOK, Untouched, [Next]_vars
  PROVE  Untouched'
<1>. USE DEF TypeOK, Untouched, Exists
<1>1. CASE Stops
  BY <1>1 DEF Stops, Restart, Exit, CutShort, StartUnderWay, Starting, Launching, NoRecord
<1>2. CASE LaunchStep
  BY <1>2 DEF LaunchStep, LaunchSaveSession, LaunchSaveRun, LaunchMap, LaunchStarts,
       LaunchAborts, Finish, NoRecord, Goto, CutShort, StartUnderWay, Starting, Launching,
       Save, Of
<1>3. CASE LookupStep
  BY <1>3 DEF LookupStep, StillStarting, ResumeBegins, Goto, Finish, NoRecord
<1>4. CASE CleanStep
  BY <1>4 DEF CleanStep, Cleanup, CleanupNothing, CleanRun, CleanSession, CleanupEnds, Finish,
       NoRecord, Goto, Listed
<1>5. ASSUME NEW t \in todo, CleanTopic(t) PROVE Untouched'
  BY <1>5 DEF CleanTopic, Goto
<1>6. ASSUME NEW s \in Sessions, UserStep(s) PROVE Untouched'
  BY <1>6 DEF UserStep, Launch, Message, TopicVanishes, Goto
<1>7. ASSUME NEW s \in Sessions, StartStep(s) PROVE Untouched'
  BY <1>7 DEF StartStep, StartSavesRun, StartFailureSavesRun, StartGivesUp, CutShort,
       StartUnderWay, Starting, Launching, Finish, NoRecord, Goto, AfterTurn
<1>8. ASSUME NEW a \in Actors, StreamStep(a) PROVE Untouched'
  BY <1>8 DEF StreamStep, SaveCopy, TopicGone, RetireUnsaved, StreamFails, Finish, NoRecord,
       Goto, Of, Save, SavesCopy
<1>9. ASSUME NEW a \in Actors, TurnStep(a) PROVE Untouched'
  BY <1>9 DEF TurnStep, TurnReturns, TurnFails, AutoReply, Goto
<1>10. ASSUME NEW a \in Actors, AfterStep(a) PROVE Untouched'
  BY <1>10 DEF AfterStep, TurnSavesRun, TurnSavesSession, Delivered, Finish, NoRecord, Goto,
       Save, Of
<1>11. CASE UNCHANGED vars BY <1>11 DEF vars
<1>. QED BY <1>1, <1>2, <1>3, <1>4, <1>5, <1>6, <1>7, <1>8, <1>9, <1>10, <1>11, NextSteps

(* From the choice of its id to the start of its goroutine a session has no *)
(* other actor: its topic is not mapped before the last step of the launch. *)
LEMMA LaunchIsAloneStep ==
  ASSUME TypeOK, LaunchIsAlone, WorkersHaveRuns, Untouched, [Next]_vars
  PROVE  LaunchIsAlone'
<1>. USE DEF TypeOK, LaunchIsAlone, WorkersHaveRuns, Untouched, LaunchPCs, CleanPCs, Works,
             Exists, Launching
<1>1. CASE Stops
  BY <1>1 DEF Stops, Restart, Exit, CutShort, StartUnderWay, Starting, NoRecord
<1>2. CASE LaunchStep
  BY <1>2 DEF LaunchStep, LaunchSaveSession, LaunchSaveRun, LaunchMap, LaunchStarts,
       LaunchAborts, Finish, NoRecord, Goto, CutShort, StartUnderWay, Starting, Save, Of
<1>3. CASE LookupStep
  BY <1>3 DEF LookupStep, StillStarting, ResumeBegins, Goto, Finish, NoRecord
<1>4. CASE CleanStep
  BY <1>4 DEF CleanStep, Cleanup, CleanupNothing, CleanRun, CleanSession, CleanupEnds, Finish,
       NoRecord, Goto, Listed
<1>5. ASSUME NEW t \in todo, CleanTopic(t) PROVE LaunchIsAlone'
  BY <1>5 DEF CleanTopic, Goto
<1>6. ASSUME NEW s \in Sessions, UserStep(s) PROVE LaunchIsAlone'
  BY <1>6 DEF UserStep, Launch, Message, TopicVanishes, Goto
<1>7. ASSUME NEW s \in Sessions, StartStep(s) PROVE LaunchIsAlone'
  BY <1>7 DEF StartStep, StartSavesRun, StartFailureSavesRun, StartGivesUp, CutShort,
       StartUnderWay, Starting, Finish, NoRecord, Goto, AfterTurn
<1>8. ASSUME NEW a \in Actors, StreamStep(a) PROVE LaunchIsAlone'
  <2>1. CASE SaveCopy(a)
    BY <2>1 DEF SaveCopy, Save, Of, SavesCopy
  <2>2. CASE TopicGone(a)
    BY <2>2 DEF TopicGone, Save, Of, SavesCopy
  <2>3. CASE RetireUnsaved(a) \/ StreamFails(a)
    BY <2>3 DEF RetireUnsaved, StreamFails, Finish, NoRecord, Goto, Of
  <2>. QED BY <1>8, <2>1, <2>2, <2>3 DEF StreamStep
<1>9. ASSUME NEW a \in Actors, TurnStep(a) PROVE LaunchIsAlone'
  BY <1>9 DEF TurnStep, TurnReturns, TurnFails, AutoReply, Goto
<1>10. ASSUME NEW a \in Actors, AfterStep(a) PROVE LaunchIsAlone'
  BY <1>10 DEF AfterStep, TurnSavesRun, TurnSavesSession, Delivered, Finish, NoRecord, Goto,
       Save, Of
<1>11. CASE UNCHANGED vars BY <1>11 DEF vars
<1>. QED BY <1>1, <1>2, <1>3, <1>4, <1>5, <1>6, <1>7, <1>8, <1>9, <1>10, <1>11, NextSteps

(* A start that is under way has not been cut short.                       *)
LEMMA UnderWayIsWholeStep ==
  ASSUME TypeOK, UnderWayIsWhole, LaunchIsAlone, [Next]_vars
  PROVE  UnderWayIsWhole'
<1>. USE DEF TypeOK, UnderWayIsWhole, LaunchIsAlone, LaunchPCs, Exists, StartUnderWay,
             Launching, Starting
<1>1. CASE Stops
  BY <1>1 DEF Stops, Restart, Exit, CutShort, NoRecord
<1>2. CASE LaunchStep
  BY <1>2 DEF LaunchStep, LaunchSaveSession, LaunchSaveRun, LaunchMap, LaunchStarts,
       LaunchAborts, Finish, NoRecord, Goto, CutShort, Save, Of
<1>3. CASE LookupStep
  BY <1>3 DEF LookupStep, StillStarting, ResumeBegins, Goto, Finish, NoRecord
<1>4. CASE CleanStep
  BY <1>4 DEF CleanStep, Cleanup, CleanupNothing, CleanRun, CleanSession, CleanupEnds, Finish,
       NoRecord, Goto
<1>5. ASSUME NEW t \in todo, CleanTopic(t) PROVE UnderWayIsWhole'
  BY <1>5 DEF CleanTopic, Goto
<1>6. ASSUME NEW s \in Sessions, UserStep(s) PROVE UnderWayIsWhole'
  BY <1>6 DEF UserStep, Launch, Message, TopicVanishes, Goto
<1>7. ASSUME NEW s \in Sessions, StartStep(s) PROVE UnderWayIsWhole'
  BY <1>7 DEF StartStep, StartSavesRun, StartFailureSavesRun, StartGivesUp, CutShort, Finish,
       NoRecord, Goto, AfterTurn
<1>8. ASSUME NEW a \in Actors, StreamStep(a) PROVE UnderWayIsWhole'
  BY <1>8 DEF StreamStep, SaveCopy, TopicGone, RetireUnsaved, StreamFails, Finish, NoRecord,
       Goto, Of, Save, SavesCopy
<1>9. ASSUME NEW a \in Actors, TurnStep(a) PROVE UnderWayIsWhole'
  BY <1>9 DEF TurnStep, TurnReturns, TurnFails, AutoReply, Goto
<1>10. ASSUME NEW a \in Actors, AfterStep(a) PROVE UnderWayIsWhole'
  BY <1>10 DEF AfterStep, TurnSavesRun, TurnSavesSession, Delivered, Finish, NoRecord, Goto,
       Save, Of
<1>11. CASE UNCHANGED vars BY <1>11 DEF vars
<1>. QED BY <1>1, <1>2, <1>3, <1>4, <1>5, <1>6, <1>7, <1>8, <1>9, <1>10, <1>11, NextSteps

(* Only Telegram says that a topic is gone, so no record and no copy of it loses *)
(* a topic that exists; cleanup deletes the topic before anything else.    *)
LEMMA RoutedWhileTopicStep ==
  ASSUME TypeOK, RoutedWhileTopic, Untouched, MappedExists, [Next]_vars
  PROVE  RoutedWhileTopic'
<1>. USE DEF TypeOK, RoutedWhileTopic, Untouched, MappedExists, CleanPCs, Works, Of, Exists
<1>1. CASE Stops
  BY <1>1 DEF Stops, Restart, Exit, CutShort, StartUnderWay, Starting, Launching, NoRecord
<1>2. CASE LaunchStep
  BY <1>2 DEF LaunchStep, LaunchSaveSession, LaunchSaveRun, LaunchMap, LaunchStarts,
       LaunchAborts, Finish, NoRecord, Goto, CutShort, StartUnderWay, Starting, Launching,
       Save
<1>3. CASE LookupStep
  BY <1>3 DEF LookupStep, StillStarting, ResumeBegins, Goto, Finish, NoRecord
<1>4. CASE CleanStep
  BY <1>4 DEF CleanStep, Cleanup, CleanupNothing, CleanRun, CleanSession, CleanupEnds, Finish,
       NoRecord, Goto, Listed
<1>5. ASSUME NEW t \in todo, CleanTopic(t) PROVE RoutedWhileTopic'
  BY <1>5 DEF CleanTopic, Goto
<1>6. ASSUME NEW s \in Sessions, UserStep(s) PROVE RoutedWhileTopic'
  BY <1>6 DEF UserStep, Launch, Message, TopicVanishes, Goto
<1>7. ASSUME NEW s \in Sessions, StartStep(s) PROVE RoutedWhileTopic'
  BY <1>7 DEF StartStep, StartSavesRun, StartFailureSavesRun, StartGivesUp, CutShort,
       StartUnderWay, Starting, Launching, Finish, NoRecord, Goto, AfterTurn
<1>8. ASSUME NEW a \in Actors, StreamStep(a) PROVE RoutedWhileTopic'
  BY <1>8 DEF StreamStep, SaveCopy, TopicGone, RetireUnsaved, StreamFails, Finish, NoRecord,
       Goto, Save, SavesCopy
<1>9. ASSUME NEW a \in Actors, TurnStep(a) PROVE RoutedWhileTopic'
  BY <1>9 DEF TurnStep, TurnReturns, TurnFails, AutoReply, Goto
<1>10. ASSUME NEW a \in Actors, AfterStep(a) PROVE RoutedWhileTopic'
  <2>1. CASE TurnSavesRun(a)
    BY <2>1 DEF TurnSavesRun, Goto
  <2>2. CASE TurnSavesSession(a)
    BY <2>2 DEF TurnSavesSession, Goto, Save
  <2>3. CASE Delivered(a)
    BY <2>3 DEF Delivered, Finish, NoRecord, Goto
  <2>. QED BY <1>10, <2>1, <2>2, <2>3 DEF AfterStep
<1>11. CASE UNCHANGED vars BY <1>11 DEF vars
<1>. QED BY <1>1, <1>2, <1>3, <1>4, <1>5, <1>6, <1>7, <1>8, <1>9, <1>10, <1>11, NextSteps

(* A mapped topic that exists has a record: cleanup takes the record only after *)
(* the topic, and every save writes a record.                              *)
LEMMA MappedExistsStep ==
  ASSUME TypeOK, MappedExists, WorkersHaveRuns, Untouched, LaunchIsAlone,
        RoutedWhileTopic, [Next]_vars
  PROVE  MappedExists'
<1>. USE DEF TypeOK, MappedExists, WorkersHaveRuns, Untouched, LaunchIsAlone, RoutedWhileTopic,
             LaunchPCs, CleanPCs, Works, Of, Exists, Launching
<1>1. CASE Stops
  BY <1>1 DEF Stops, Restart, Exit, CutShort, StartUnderWay, Starting, NoRecord
<1>2. CASE LaunchStep
  BY <1>2 DEF LaunchStep, LaunchSaveSession, LaunchSaveRun, LaunchMap, LaunchStarts,
       LaunchAborts, Finish, NoRecord, Goto, CutShort, StartUnderWay, Starting, Save
<1>3. CASE LookupStep
  BY <1>3 DEF LookupStep, StillStarting, ResumeBegins, Goto, Finish, NoRecord
<1>4. CASE CleanStep
  BY <1>4 DEF CleanStep, Cleanup, CleanupNothing, CleanRun, CleanSession, CleanupEnds, Finish,
       NoRecord, Goto, Listed
<1>5. ASSUME NEW t \in todo, CleanTopic(t) PROVE MappedExists'
  BY <1>5 DEF CleanTopic, Goto
<1>6. ASSUME NEW s \in Sessions, UserStep(s) PROVE MappedExists'
  BY <1>6 DEF UserStep, Launch, Message, TopicVanishes, Goto
<1>7. ASSUME NEW s \in Sessions, StartStep(s) PROVE MappedExists'
  BY <1>7 DEF StartStep, StartSavesRun, StartFailureSavesRun, StartGivesUp, CutShort,
       StartUnderWay, Starting, Finish, NoRecord, Goto, AfterTurn
<1>8. ASSUME NEW a \in Actors, StreamStep(a) PROVE MappedExists'
  BY <1>8 DEF StreamStep, SaveCopy, TopicGone, RetireUnsaved, StreamFails, Finish, NoRecord,
       Goto, Save, SavesCopy
<1>9. ASSUME NEW a \in Actors, TurnStep(a) PROVE MappedExists'
  BY <1>9 DEF TurnStep, TurnReturns, TurnFails, AutoReply, Goto
<1>10. ASSUME NEW a \in Actors, AfterStep(a) PROVE MappedExists'
  BY <1>10 DEF AfterStep, TurnSavesRun, TurnSavesSession, Delivered, Finish, NoRecord, Goto,
       Save
<1>11. CASE UNCHANGED vars BY <1>11 DEF vars
<1>. QED BY <1>1, <1>2, <1>3, <1>4, <1>5, <1>6, <1>7, <1>8, <1>9, <1>10, <1>11, NextSteps

(* A topic without a record belongs to a launch before its first save, or to *)
(* nobody.                                                                 *)
LEMMA NotYetThereStep ==
  ASSUME TypeOK, NotYetThere, WorkersHaveRuns, Untouched, RoutedWhileTopic, MappedExists,
        [Next]_vars
  PROVE  NotYetThere'
<1>. USE DEF TypeOK, NotYetThere, WorkersHaveRuns, Untouched, RoutedWhileTopic, MappedExists,
             CleanPCs, Works, Of, Exists
<1>1. CASE Stops
  BY <1>1 DEF Stops, Restart, Exit, CutShort, StartUnderWay, Starting, Launching, NoRecord
<1>2. CASE LaunchStep
  BY <1>2 DEF LaunchStep, LaunchSaveSession, LaunchSaveRun, LaunchMap, LaunchStarts,
       LaunchAborts, Finish, NoRecord, Goto, CutShort, StartUnderWay, Starting, Launching,
       Save
<1>3. CASE LookupStep
  BY <1>3 DEF LookupStep, StillStarting, ResumeBegins, Goto, Finish, NoRecord
<1>4. CASE CleanStep
  BY <1>4 DEF CleanStep, Cleanup, CleanupNothing, CleanRun, CleanSession, CleanupEnds, Finish,
       NoRecord, Goto, Listed
<1>5. ASSUME NEW t \in todo, CleanTopic(t) PROVE NotYetThere'
  BY <1>5 DEF CleanTopic, Goto
<1>6. ASSUME NEW s \in Sessions, UserStep(s) PROVE NotYetThere'
  BY <1>6 DEF UserStep, Launch, Message, TopicVanishes, Goto
<1>7. ASSUME NEW s \in Sessions, StartStep(s) PROVE NotYetThere'
  BY <1>7 DEF StartStep, StartSavesRun, StartFailureSavesRun, StartGivesUp, CutShort,
       StartUnderWay, Starting, Launching, Finish, NoRecord, Goto, AfterTurn
<1>8. ASSUME NEW a \in Actors, StreamStep(a) PROVE NotYetThere'
  BY <1>8 DEF StreamStep, SaveCopy, TopicGone, RetireUnsaved, StreamFails, Finish, NoRecord,
       Goto, Save, SavesCopy
<1>9. ASSUME NEW a \in Actors, TurnStep(a) PROVE NotYetThere'
  BY <1>9 DEF TurnStep, TurnReturns, TurnFails, AutoReply, Goto
<1>10. ASSUME NEW a \in Actors, AfterStep(a) PROVE NotYetThere'
  BY <1>10 DEF AfterStep, TurnSavesRun, TurnSavesSession, Delivered, Finish, NoRecord, Goto,
       Save
<1>11. CASE UNCHANGED vars BY <1>11 DEF vars
<1>. QED BY <1>1, <1>2, <1>3, <1>4, <1>5, <1>6, <1>7, <1>8, <1>9, <1>10, <1>11, NextSteps

(* A run without ProviderSessionID is replaced by nothing but the start it was *)
(* made for, so a stale save can only swap two runs that can both be resumed. *)
LEMMA SameRunStep ==
  ASSUME TypeOK, SameRun, WorkersHaveRuns, RunsAreOwned, RoutedWhileTopic, Untouched,
        NotYetThere, [Next]_vars
  PROVE  SameRun'
<1>. USE DEF TypeOK, SameRun, Untouched, NotYetThere, CleanPCs, Works, Of, Exists, Launching,
             Starting, Unanswered
<1>1. CASE Stops
  BY <1>1 DEF Stops, Restart, Exit, CutShort, StartUnderWay, NoRecord
<1>2. CASE LaunchStep
  BY <1>2 DEF LaunchStep, LaunchSaveSession, LaunchSaveRun, LaunchMap, LaunchStarts,
       LaunchAborts, Finish, NoRecord, Goto, CutShort, StartUnderWay, Save
<1>3. CASE LookupStep
  BY <1>3 DEF LookupStep, StillStarting, ResumeBegins, Goto, Finish, NoRecord
<1>4. CASE CleanStep
  <2>1. CASE Cleanup \/ CleanupNothing
    BY <2>1 DEF Cleanup, CleanupNothing, Goto, Listed
  <2>2. CASE CleanRun
    <3>1. \A a \in Actors : Of(a) \in topics =>
            /\ copy[a].run \in usable => copy[a].run \in usable'
            /\ stored[Of(a)].run \in usable => stored[Of(a)].run \in usable'
      BY CleanRunSpares, <2>2 DEF Holds, Record
    <3>2. pc' = [pc EXCEPT ![Main] = "cleanSession"] BY <2>2 DEF CleanRun, Goto
    <3>. QED BY <2>2, <3>1, <3>2 DEF CleanRun
  <2>3. CASE CleanSession
    BY <2>3 DEF CleanSession, Goto, NoRecord
  <2>4. CASE CleanupEnds
    BY <2>4 DEF CleanupEnds, Finish, NoRecord, Goto
  <2>. QED BY <1>4, <2>1, <2>2, <2>3, <2>4 DEF CleanStep
<1>5. ASSUME NEW t \in todo, CleanTopic(t) PROVE SameRun'
  BY <1>5 DEF CleanTopic, Goto
<1>6. ASSUME NEW s \in Sessions, UserStep(s) PROVE SameRun'
  BY <1>6 DEF UserStep, Launch, Message, TopicVanishes, Goto
<1>7. ASSUME NEW s \in Sessions, StartStep(s) PROVE SameRun'
  BY <1>7 DEF StartStep, StartSavesRun, StartFailureSavesRun, StartGivesUp, CutShort,
       StartUnderWay, Finish, NoRecord, Goto, AfterTurn
<1>8. ASSUME NEW a \in Actors, StreamStep(a) PROVE SameRun'
  BY <1>8 DEF StreamStep, SaveCopy, TopicGone, RetireUnsaved, StreamFails, Finish, NoRecord,
       Goto, Save, SavesCopy
<1>9. ASSUME NEW a \in Actors, TurnStep(a) PROVE SameRun'
  BY <1>9 DEF TurnStep, TurnReturns, TurnFails, AutoReply, Goto
<1>10. ASSUME NEW a \in Actors, AfterStep(a) PROVE SameRun'
  <2>1. CASE TurnSavesRun(a)
    BY <2>1 DEF TurnSavesRun, Goto
  <2>2. CASE TurnSavesSession(a)
    BY <2>2 DEF TurnSavesSession, Goto, Save
  <2>3. CASE Delivered(a)
    BY <2>3 DEF Delivered, Finish, NoRecord, Goto
  <2>. QED BY <1>10, <2>1, <2>2, <2>3 DEF AfterStep
<1>11. CASE UNCHANGED vars BY <1>11 DEF vars
<1>. QED BY <1>1, <1>2, <1>3, <1>4, <1>5, <1>6, <1>7, <1>8, <1>9, <1>10, <1>11, NextSteps

(* After a cleanup with no start goroutine left, Main can at most look the *)
(* session up, and finds nothing.                                          *)
LEMMA CleanedIsGoneStep ==
  ASSUME TypeOK, CleanedIsGone, WorkersHaveRuns, Untouched, [Next]_vars
  PROVE  CleanedIsGone'
<1>. USE DEF TypeOK, CleanedIsGone, WorkersHaveRuns, Untouched, CleanPCs, Works, Exists
<1>1. CASE Stops
  BY <1>1 DEF Stops, Restart, Exit, CutShort, StartUnderWay, Starting, Launching, NoRecord
<1>2. CASE LaunchStep
  BY <1>2 DEF LaunchStep, LaunchSaveSession, LaunchSaveRun, LaunchMap, LaunchStarts,
       LaunchAborts, Finish, NoRecord, Goto, CutShort, StartUnderWay, Starting, Launching,
       Save, Of
<1>3. CASE LookupStep
  BY <1>3 DEF LookupStep, StillStarting, ResumeBegins, Goto, Finish, NoRecord
<1>4. CASE CleanStep
  BY <1>4 DEF CleanStep, Cleanup, CleanupNothing, CleanRun, CleanSession, CleanupEnds, Finish,
       NoRecord, Goto, Listed
<1>5. ASSUME NEW t \in todo, CleanTopic(t) PROVE CleanedIsGone'
  BY <1>5 DEF CleanTopic, Goto
<1>6. ASSUME NEW s \in Sessions, UserStep(s) PROVE CleanedIsGone'
  BY <1>6 DEF UserStep, Launch, Message, TopicVanishes, Goto
<1>7. ASSUME NEW s \in Sessions, StartStep(s) PROVE CleanedIsGone'
  BY <1>7 DEF StartStep, StartSavesRun, StartFailureSavesRun, StartGivesUp, CutShort,
       StartUnderWay, Starting, Launching, Finish, NoRecord, Goto, AfterTurn
<1>8. ASSUME NEW a \in Actors, StreamStep(a) PROVE CleanedIsGone'
  BY <1>8 DEF StreamStep, SaveCopy, TopicGone, RetireUnsaved, StreamFails, Finish, NoRecord,
       Goto, Of, Save, SavesCopy
<1>9. ASSUME NEW a \in Actors, TurnStep(a) PROVE CleanedIsGone'
  BY <1>9 DEF TurnStep, TurnReturns, TurnFails, AutoReply, Goto
<1>10. ASSUME NEW a \in Actors, AfterStep(a) PROVE CleanedIsGone'
  BY <1>10 DEF AfterStep, TurnSavesRun, TurnSavesSession, Delivered, Finish, NoRecord, Goto,
       Save, Of
<1>11. CASE UNCHANGED vars BY <1>11 DEF vars
<1>. QED BY <1>1, <1>2, <1>3, <1>4, <1>5, <1>6, <1>7, <1>8, <1>9, <1>10, <1>11, NextSteps

(* The start of a session ends with its run usable, or is recorded as cut. *)
LEMMA WholeSessionAnswersStep ==
  ASSUME TypeOK, WholeSessionAnswers, WorkersHaveRuns, RunsAreOwned, RoutedWhileTopic,
        Untouched, NotYetThere, SameRun, [Next]_vars
  PROVE  WholeSessionAnswers'
<1>. USE DEF TypeOK, WholeSessionAnswers, Untouched, NotYetThere, SameRun, CleanPCs, Works, Of,
             Exists, StartUnderWay, Launching, Starting, Unanswered
<1>1. CASE Stops
  BY <1>1 DEF Stops, Restart, Exit, CutShort, NoRecord
<1>2. CASE LaunchStep
  BY <1>2 DEF LaunchStep, LaunchSaveSession, LaunchSaveRun, LaunchMap, LaunchStarts,
       LaunchAborts, Finish, NoRecord, Goto, CutShort, Save
<1>3. CASE LookupStep
  BY <1>3 DEF LookupStep, StillStarting, ResumeBegins, Goto, Finish, NoRecord
<1>4. CASE CleanStep
  <2>1. CASE Cleanup \/ CleanupNothing
    BY <2>1 DEF Cleanup, CleanupNothing, Goto, Listed
  <2>2. CASE CleanRun
    <3>1. \A s \in topics :
            /\ stored[s].run \in usable => stored[s].run \in usable'
            /\ stored[s].run \in starting => stored[s].run \in starting'
      BY CleanRunSpares, <2>2 DEF Holds, Record
    <3>2. pc' = [pc EXCEPT ![Main] = "cleanSession"] BY <2>2 DEF CleanRun, Goto
    <3>. QED BY <2>2, <3>1, <3>2 DEF CleanRun
  <2>3. CASE CleanSession
    BY <2>3 DEF CleanSession, Goto, NoRecord
  <2>4. CASE CleanupEnds
    BY <2>4 DEF CleanupEnds, Finish, NoRecord, Goto
  <2>. QED BY <1>4, <2>1, <2>2, <2>3, <2>4 DEF CleanStep
<1>5. ASSUME NEW t \in todo, CleanTopic(t) PROVE WholeSessionAnswers'
  BY <1>5 DEF CleanTopic, Goto
<1>6. ASSUME NEW s \in Sessions, UserStep(s) PROVE WholeSessionAnswers'
  BY <1>6 DEF UserStep, Launch, Message, TopicVanishes, Goto
<1>7. ASSUME NEW s \in Sessions, StartStep(s) PROVE WholeSessionAnswers'
  BY <1>7 DEF StartStep, StartSavesRun, StartFailureSavesRun, StartGivesUp, CutShort, Finish,
       NoRecord, Goto, AfterTurn
<1>8. ASSUME NEW a \in Actors, StreamStep(a) PROVE WholeSessionAnswers'
  BY <1>8 DEF StreamStep, SaveCopy, TopicGone, RetireUnsaved, StreamFails, Finish, NoRecord,
       Goto, Save, SavesCopy
<1>9. ASSUME NEW a \in Actors, TurnStep(a) PROVE WholeSessionAnswers'
  BY <1>9 DEF TurnStep, TurnReturns, TurnFails, AutoReply, Goto
<1>10. ASSUME NEW a \in Actors, AfterStep(a) PROVE WholeSessionAnswers'
  BY <1>10 DEF AfterStep, TurnSavesRun, TurnSavesSession, Delivered, Finish, NoRecord, Goto,
       Save
<1>11. CASE UNCHANGED vars BY <1>11 DEF vars
<1>. QED BY <1>1, <1>2, <1>3, <1>4, <1>5, <1>6, <1>7, <1>8, <1>9, <1>10, <1>11, NextSteps

(* Every record names a run saved before it, but for the first save of a launch. *)
LEMMA RunMissingOnlyIfTornStep ==
  ASSUME TypeOK, RunMissingOnlyIfTorn, WorkersHaveRuns, RunsAreOwned, RoutedWhileTopic,
        Untouched, UnderWayIsWhole, NotYetThere, SameRun, [Next]_vars
  PROVE  RunMissingOnlyIfTorn'
<1>. USE DEF TypeOK, RunMissingOnlyIfTorn, Untouched, UnderWayIsWhole, NotYetThere, SameRun,
             CleanPCs, Works, Of, Exists, RunExists, StartUnderWay, Launching, Starting,
             Unanswered
<1>1. CASE Stops
  BY <1>1 DEF Stops, Restart, Exit, CutShort, NoRecord
<1>2. CASE LaunchStep
  BY <1>2 DEF LaunchStep, LaunchSaveSession, LaunchSaveRun, LaunchMap, LaunchStarts,
       LaunchAborts, Finish, NoRecord, Goto, CutShort, Save
<1>3. CASE LookupStep
  BY <1>3 DEF LookupStep, StillStarting, ResumeBegins, Goto, Finish, NoRecord
<1>4. CASE CleanStep
  <2>1. CASE Cleanup \/ CleanupNothing
    BY <2>1 DEF Cleanup, CleanupNothing, Goto, Listed
  <2>2. CASE CleanRun
    <3>1. \A s \in topics :
            /\ stored[s].run \in usable => stored[s].run \in usable'
            /\ stored[s].run \in starting => stored[s].run \in starting'
      BY CleanRunSpares, <2>2 DEF Holds, Record
    <3>2. pc' = [pc EXCEPT ![Main] = "cleanSession"] BY <2>2 DEF CleanRun, Goto
    <3>. QED BY <2>2, <3>1, <3>2 DEF CleanRun
  <2>3. CASE CleanSession
    BY <2>3 DEF CleanSession, Goto, NoRecord
  <2>4. CASE CleanupEnds
    BY <2>4 DEF CleanupEnds, Finish, NoRecord, Goto
  <2>. QED BY <1>4, <2>1, <2>2, <2>3, <2>4 DEF CleanStep
<1>5. ASSUME NEW t \in todo, CleanTopic(t) PROVE RunMissingOnlyIfTorn'
  BY <1>5 DEF CleanTopic, Goto
<1>6. ASSUME NEW s \in Sessions, UserStep(s) PROVE RunMissingOnlyIfTorn'
  BY <1>6 DEF UserStep, Launch, Message, TopicVanishes, Goto
<1>7. ASSUME NEW s \in Sessions, StartStep(s) PROVE RunMissingOnlyIfTorn'
  BY <1>7 DEF StartStep, StartSavesRun, StartFailureSavesRun, StartGivesUp, CutShort, Finish,
       NoRecord, Goto, AfterTurn
<1>8. ASSUME NEW a \in Actors, StreamStep(a) PROVE RunMissingOnlyIfTorn'
  BY <1>8 DEF StreamStep, SaveCopy, TopicGone, RetireUnsaved, StreamFails, Finish, NoRecord,
       Goto, Save, SavesCopy
<1>9. ASSUME NEW a \in Actors, TurnStep(a) PROVE RunMissingOnlyIfTorn'
  BY <1>9 DEF TurnStep, TurnReturns, TurnFails, AutoReply, Goto
<1>10. ASSUME NEW a \in Actors, AfterStep(a) PROVE RunMissingOnlyIfTorn'
  BY <1>10 DEF AfterStep, TurnSavesRun, TurnSavesSession, Delivered, Finish, NoRecord, Goto,
       Save
<1>11. CASE UNCHANGED vars BY <1>11 DEF vars
<1>. QED BY <1>1, <1>2, <1>3, <1>4, <1>5, <1>6, <1>7, <1>8, <1>9, <1>10, <1>11, NextSteps

-----------------------------------------------------------------------------
(* The theorems.                                                           *)

(* Nothing exists before the first start of the daemon.                    *)
LEMMA InitIInv == Init => IInv
<1>. SUFFICES ASSUME Init PROVE IInv OBVIOUS
<1>1. TypeOK BY InitTypeOK
<1>2. \A a \in Actors : pc[a] = "idle" BY DEF Init
<1>3. \A a \in Actors : copy[a].run = 0 BY DEF Init, NoRecord
<1>4. \A s \in Sessions : stored[s].run = 0 /\ fate[s] = "whole" BY DEF Init, NoRecord
<1>5. /\ topics = {} /\ starting = {} /\ usable = {} /\ mapped = {} /\ todo = {} /\ cleaned = {}
  BY DEF Init
<1>6. Places /\ WorkersHaveRuns /\ UnderWayIsWhole
  BY <1>2, <1>4, <1>5 DEF Places, StartPCs, WorkersHaveRuns, Works, UnderWayIsWhole
<1>7. RunsAreOwned BY <1>3, <1>4, <1>5 DEF RunsAreOwned, Holds
<1>8. Untouched /\ LaunchIsAlone
  BY <1>2, <1>4, <1>5 DEF Untouched, LaunchIsAlone, LaunchPCs, Launching, Exists
<1>9. RoutedWhileTopic /\ MappedExists /\ NotYetThere /\ CleanedIsGone
  BY <1>2, <1>5 DEF RoutedWhileTopic, MappedExists, NotYetThere, CleanedIsGone, Works
<1>10. SameRun /\ WholeSessionAnswers /\ RunMissingOnlyIfTorn
  BY <1>5 DEF SameRun, WholeSessionAnswers, RunMissingOnlyIfTorn
<1>. QED BY <1>1, <1>6, <1>7, <1>8, <1>9, <1>10 DEF IInv

(* Every step keeps every part.                                            *)
LEMMA StepIInv == IInv /\ [Next]_vars => IInv'
BY StepTypeOK, PlacesStep, WorkersHaveRunsStep, RunsAreOwnedStep, UntouchedStep, LaunchIsAloneStep,
   UnderWayIsWholeStep, RoutedWhileTopicStep, MappedExistsStep, NotYetThereStep, SameRunStep,
   CleanedIsGoneStep, WholeSessionAnswersStep, RunMissingOnlyIfTornStep
DEF IInv

(* So it holds of every reachable state.                                   *)
LEMMA Invariance == Spec => []IInv
BY InitIInv, StepIInv, PTL DEF Spec

(* The records, copies and cleanup targets are of their types.             *)
THEOREM TypeCorrect == Spec => []TypeOK
BY Invariance, PTL DEF IInv

(* Whatever the interleaving of cleanup, retirement and the stale saves of *)
(* the two actors, a topic that exists and is mapped has a record that     *)
(* still names it.                                                         *)
THEOREM TopicsLeadSomewhere == Spec => []RoutedTopicHasRecord
<1>1. IInv => RoutedTopicHasRecord
  BY DEF IInv, RoutedWhileTopic, MappedExists, RoutedTopicHasRecord
<1>. QED BY <1>1, Invariance, PTL

(* A session whose start came to its end can be resumed for as long as it  *)
(* has a record and a topic.                                               *)
THEOREM WholeSessionsAnswer == Spec => []WholeSessionAnswers
BY Invariance, PTL DEF IInv

(* Only a launch cut between its two saves leaves a record of a run that   *)
(* is not on disk.                                                         *)
THEOREM OnlyTornLaunchesPoison == Spec => []RunMissingOnlyIfTorn
BY Invariance, PTL DEF IInv

(* A cleanup with no start goroutine left behind is final.                 *)
THEOREM QuietCleanupStays == Spec => []QuietCleanupIsFinal
<1>1. IInv => QuietCleanupIsFinal BY DEF IInv, CleanedIsGone, QuietCleanupIsFinal
<1>. QED BY <1>1, Invariance, PTL

(* What StaysUsable says of one step.                                      *)
KeepsAnswering ==
  \A s \in Sessions :
    Exists(s) /\ stored[s].run \in usable /\ s \in topics' => stored'[s].run \in usable'

(* No step takes the answer from a session: CleanRun spares the runs of    *)
(* topics that exist, and a save that replaces a usable run writes another *)
(* (SameRun).                                                              *)
LEMMA KeepsAnsweringStep ==
  ASSUME TypeOK, WorkersHaveRuns, RunsAreOwned, Untouched, LaunchIsAlone, RoutedWhileTopic,
         SameRun, [Next]_vars
  PROVE  KeepsAnswering
<1>. USE DEF TypeOK, KeepsAnswering, Exists, Of
<1>1. CASE Stops BY <1>1 DEF Stops, Restart, Exit
<1>2. CASE LaunchStep
  <2>1. CASE LaunchSaveSession BY <2>1 DEF LaunchSaveSession, Save, LaunchIsAlone, LaunchPCs
  <2>2. CASE LaunchSaveRun \/ LaunchMap \/ LaunchStarts \/ LaunchAborts
    BY <2>2 DEF LaunchSaveRun, LaunchMap, LaunchStarts, LaunchAborts
  <2>. QED BY <1>2, <2>1, <2>2 DEF LaunchStep
<1>3. CASE LookupStep BY <1>3 DEF LookupStep, StillStarting, ResumeBegins
<1>4. CASE CleanStep
  <2>1. CASE CleanRun
    <3>1. \A s \in topics : stored[s].run \in usable => stored[s].run \in usable'
      BY CleanRunSpares, <2>1 DEF Holds, Record
    <3>. QED BY <2>1, <3>1 DEF CleanRun
  <2>2. CASE CleanSession BY <2>2 DEF CleanSession, RoutedWhileTopic
  <2>3. CASE Cleanup \/ CleanupNothing \/ CleanupEnds
    BY <2>3 DEF Cleanup, CleanupNothing, CleanupEnds
  <2>. QED BY <1>4, <2>1, <2>2, <2>3 DEF CleanStep
<1>5. ASSUME NEW t \in todo, CleanTopic(t) PROVE KeepsAnswering BY <1>5 DEF CleanTopic
<1>6. ASSUME NEW s \in Sessions, UserStep(s) PROVE KeepsAnswering
  BY <1>6 DEF UserStep, Launch, Message, TopicVanishes, Untouched
<1>7. ASSUME NEW s \in Sessions, StartStep(s) PROVE KeepsAnswering
  BY <1>7 DEF StartStep, StartSavesRun, StartFailureSavesRun, StartGivesUp
<1>8. ASSUME NEW a \in Actors, StreamStep(a) PROVE KeepsAnswering
  <2>1. CASE SaveCopy(a)
    BY <2>1 DEF SaveCopy, SavesCopy, Save, SameRun, Works, CleanPCs
  <2>2. CASE TopicGone(a) \/ RetireUnsaved(a) \/ StreamFails(a)
    BY <2>2 DEF TopicGone, RetireUnsaved, StreamFails, Save
  <2>. QED BY <1>8, <2>1, <2>2 DEF StreamStep
<1>9. ASSUME NEW a \in Actors, TurnStep(a) PROVE KeepsAnswering
  BY <1>9 DEF TurnStep, TurnReturns, TurnFails, AutoReply
<1>10. ASSUME NEW a \in Actors, AfterStep(a) PROVE KeepsAnswering
  <2>1. CASE TurnSavesRun(a) \/ Delivered(a) BY <2>1 DEF TurnSavesRun, Delivered
  <2>2. CASE TurnSavesSession(a)
    BY <2>2 DEF TurnSavesSession, Save, SameRun, Works, CleanPCs
  <2>. QED BY <1>10, <2>1, <2>2 DEF AfterStep
<1>11. CASE UNCHANGED vars BY <1>11
<1>. QED BY <1>1, <1>2, <1>3, <1>4, <1>5, <1>6, <1>7, <1>8, <1>9, <1>10, <1>11, NextSteps

(* Once a session can be resumed, no failed turn, crash or stale save      *)
(* takes the provider session away from it while its topic exists.         *)
THEOREM StaysUsableHolds == Spec => StaysUsable
<1>1. IInv /\ [Next]_vars => KeepsAnswering BY KeepsAnsweringStep DEF IInv
<1>2. KeepsAnswering
        => [\A s \in Sessions :
              Exists(s) /\ stored[s].run \in usable /\ s \in topics'
                => stored'[s].run \in usable']_vars
  BY DEF KeepsAnswering
<1>. QED BY <1>1, <1>2, Invariance, PTL DEF Spec, StaysUsable

=============================================================================
