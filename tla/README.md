# vibegram in TLA+

Specifications of vibegram: what its Telegram poll loop, its sessions and their
streamed turns, its support role, what it shows in Telegram, its `/new` wizard,
and its installation and upgrade do, model-checked on small instances with TLC,
and theorems about them checked by TLAPS. Paths below are relative to the
repository; `app/` is `internal/app/`, `state/` is `internal/state/`.

## 1. Inventory

vibegram is one Go process. It long-polls Telegram, keeps its state in JSON
files under a state directory and runs coding agents (Codex, Claude) as child
processes on a pty. There are three kinds of actors:

- the **main loop**, `App.Run`: one update at a time, every handler to its end,
  provider turns and support's automatic replies included;
- one **start goroutine** per launched session, `finishStart`: the first turn
  of the agent and the delivery of its result;
- one **reader goroutine** per provider process, `copyOutput`: it reads the pty
  line by line and, in a streamed turn, calls `OnLine` with each, so it projects
  events and calls Telegram while the handler waits for the process.

They share `sessionsByThread` (under a mutex), the files (under nothing: every
save is a whole record through a temp file and a rename) and Telegram; a reader
and its handler also share the session value of the turn, without a lock.
Outside the daemon an administrator runs `init`, `install`, `service` and
`upgrade`, and systemd starts the daemon from what these leave on disk.

| Component | State | Operations | What makes it correct |
|---|---|---|---|
| Update loop (`app/app.go`) | offset in memory, cursor file, Telegram's own offset | poll, handle, save cursor, exit, restart | no update lost, in order, at most one repeated |
| Session lifecycle (`app/runtime_session*.go`, `runtime_cleanup.go`) | session and run records, `sessionsByThread`, forum topics | launch, first turn, resume, failure records, retire, cleanup, restart | a live topic leads to a record that can be resumed; what is deleted stays deleted |
| Support (`app/runtime_session.go`, `runtime_cards_session.go`, `policy/`, `roles/`) | snapshot and record: attempts, last question, support state, human flag | project an event, decide, reply, escalate, clear | the reply budget; a human is asked for exactly when one is needed |
| Wizard (`app/runtime_setup.go`) | a draft per user, in memory; cards in the topic | `/new`, buttons, folder names, task, launch | launches what was shown, where it was shown, once |
| Store (`state/store.go`) | JSON files | save, load, list, delete | a record is the old one or the new one |
| Stream (`events/dedupe.go`, `providers/codex/`, `runner/`) | pty, lines taken, seen keys, observer's error | read, show, exit, 100 ms, close, second pass | every event is shown, once, and acted on |
| Control card (`app/runtime_control_card.go`) | message id, one message | list, read, edit or send, save the id | shows each active session as it was when the last refresh began |
| Titles and header cards (`app/runtime_topic_title.go`, `runtime_cards_session.go`) | last title and card id in the record | redraw after each projection and decision | one card; title, card and listing say what is true |
| Installation (`cmd/vibegram/`) | environment file, account, unit, executable, backups; systemd | init, install, start, stop, upgrade | no version is lost, an upgrade takes effect, the service can read its configuration |
| Others | none that lives | formatting, HTTP, the support chat | - |

What is hard here: a crash or an error between two saves; redelivery of an
update; whole-record saves of two actors over each other's; snapshots that are
saved after they went stale; buttons of cards long superseded; a budget that is
reset by the work it is meant to bound; a reader that races a 100 ms timeout
while it is inside a call; events seen twice under different keys; refreshes of
one card by two actors; titles remembered in copies; commands that die half-way
through an installation. `PROJECT.json` lists each hazard at its
line with the properties that cover it, or why none does.

## 2. Modules

| Module | Models | Depends on |
|---|---|---|
| `UpdateDelivery` | abstract: in-order, at-least-once delivery with interruptions | - |
| `UpdateLoop` | `App.Run`, the cursor file, Telegram's confirmation by offset | instance of `UpdateDelivery` |
| `UpdateLoop_proofs` | theorems on `UpdateLoop` | `UpdateLoop` |
| `SessionLifecycle` | main loop and start goroutines on records, runs, mapping, topics | - |
| `SessionLifecycle_proofs` | theorems on `SessionLifecycle` | `SessionLifecycle` |
| `SessionSnapshot` | pure operators of `state/snapshot.go` and `isRepeatedSupportEvent` | - |
| `SessionSupport` | turns, decisions and automatic replies of one session | `SessionSnapshot` |
| `SessionSupport_proofs` | theorems on `SessionSupport` | `SessionSupport` |
| `Stream` | a streamed turn: provider, reader, handler, deduper, second pass | `SessionSnapshot` |
| `ControlCard` | refreshes of the control card by several actors | - |
| `LiveTurn` | the two composed: what a turn shows is a save and a refresh; another actor | `Stream`, `ControlCard` |
| `Stream_proofs`, `LiveTurn_proofs` | theorems on both | `Stream`, `LiveTurn` |
| `SessionHeader` | title, header card and listing of a session against its records | - |
| `SessionHeader_proofs` | theorems on `SessionHeader` | `SessionHeader` |
| `DraftWizard` | the wizard's drafts, cards, texts and launches | - |
| `DraftWizard_proofs` | theorems on `DraftWizard` | `DraftWizard` |
| `Deployment` | init, install, service and upgrade commands, systemd, the daemon's start | - |
| `Deployment_proofs` | theorems on `Deployment` | `Deployment` |
| `MC...` | constants for TLC | the module they are named after |

**UpdateLoop.** `phase` is the place in `Run`: `poll` before `GetUpdates`,
`next` at the head of the range loop, `handling` in `HandleUpdate`, `saving` in
`SaveCursor`. A handler is opaque: it may act (irreversibly), return or fail.
`Exit` is every way the process ends. `acted` and `completed` are history.
The refinement mapping reads the cursor file as the acknowledgement, and the
update in `HandleUpdate` or `SaveCursor` as the active one; a crash maps to an
interruption.

**SessionLifecycle.** Each actor has a `pc` and a `copy` of the record it works
on, so that a save writes back what the copy holds. Of a record it keeps the
active run and whether it has a topic; of a run whether it has a
`ProviderSessionID`. Every store or Telegram call that can fail may fail:
`LaunchAborts`, `StartGivesUp`, `ResumeGivesUp`, `CleanupEnds`. Main's update
stays in `redo` until its handler has returned nil, as `UpdateLoop` shows.
`CutShort` records, as history, which starts did not come to their end on disk.

**SessionSupport.** A turn is a `start`, a `resume` or an automatic `reply`.
Codex's starts and resumes are streamed and each event is projected at once;
replies, and all of Claude's turns, are projected from the result
(`queue`). Snapshot and record are two variables saved by `SaveBoth`, and
`SaveFails` leaves them apart. `loaded` is the snapshot the policy decided
on, the one written back after a reply. What the model answers is open:
`Replies`, `PassesToHuman`, `Ignores` and `Escalates` are all possible wherever
the policy consults it. The snapshot file is taken to exist from the launch on
(it is made by the first projection; before that it is read from the record).
The error text of a failed turn does not become the last blocker: a blocked
event sets the blocker before the policy compares it.

A human may delete the topic at any time (`TopicIsDeleted`). What is shown there
next, the title or header card after a save (`SaveAndShow`), the turn's message
(`Message`) or the news that a start failed (`TellsOfFailure`), finds it gone and
retires the session (`Retires`): both files are saved once more, with the request
for a human, the record without its topic, and the handler goes on, for
`retireMissingSessionTopic` returns nil. `RetireFails` is its partial failure.
What Telegram answers is an assumption: no call in a deleted topic succeeds, and
one that is refused for another reason ("message to edit not found") is a failed
call like any other.

**Stream.** `written` is what the process wrote to the pty, `fetched` what the
reader has buffered, `taken` what it has kept for the result and passed to
`OnLine`; `reader = "showing"` is the time inside `OnLine`, when anything else
may happen. `turn` is the handler: `waiting` in `cmd.Wait`, `grace` in the
100 ms, `closing` once it has closed the pty, `joined`, then the second pass
(`delivering`, `showing`) and `over`. `accepted` is all that a turn is judged by
after it ran (exit code, message file). A child that outlives the process may
keep the pty open, so the end of the output may never come unless the handler
closes it. A line is a text, which gives its kind, and an item id; delivery keys
made from the time of parsing never repeat and are left out. `shown` is history;
an entry `at = 0` is the message file, shown when the output had no event.

**ControlCard.** Each session has a version, the number of its saves, and the
card's text is a version per session. A refresh is the steps `list`, `read` (one
record each), `edit` or `send`, `save`; any of them may lie between steps of
another actor's. A call that fails may have taken effect. `Save` is a save that
a refresh follows (`projectSessionEvent`, `applySupportDecision`); `SaveQuietly`
is one that none follows: the run of a turn that has returned and, after a
resume or an automatic reply, the record with its `ActiveRunID`
(`runtime_session.go:131-150`, `182-188`, `301-325`). `since` is history: the
records when the last refresh began.

**LiveTurn.** `Projects` is a save of the turn's own session and the refresh
that follows, while `Stream` is in `showing`; `Projected` returns its result to
`OnLine` or to the second pass. `Accepts` is the quiet save between turn and
delivery: a resume whose events have all been shown refreshes nothing after it.
The other actor is the main loop if the turn is a start, and another start's
goroutine if it is a resume; it saves with a refresh (`OtherSaves`) or quietly
(`OtherRecords`). Topics that are gone, the plain message that ends a delivery,
the record of a failed turn, and support's answers are in the session modules.

**SessionHeader.** The disk has the session's record and the mood of its
snapshot (failed, blocker, question, support state, escalation label); each actor
has a `copy` of the record. A redraw is the steps of `upsertSessionHeaderCard`:
`title`, `saveTitle`, `header`, `saveHeader`, `list`; `then` is where the handler
goes on. A launch, turns with any events, decisions and failures surround it.
Snapshot and record are saved in one step (`SessionSupport` has them apart), and
support may decide anything it could.

**Deployment.** A command is a script, a sequence of steps; each step may fail,
which ends the command, and the command may be cut off between any two, or in
the middle of a write (`Torn`). systemd restarts, reboots and the clock act at
any time between steps. The daemon runs the version at its unit's path if it can
read and load the environment file its unit names.

**DraftWizard.** Each action is a whole handler. Buttons stay pressable for
ever and act on the user's current draft. Folders are nodes of a tree; hidden
directories and symbolic links are left out. A folder is within a root when the
root is in every set that has the folder and, with each, the directory it is in;
`Sorted` is the order in which a directory's folders are listed. `last` is the folder of the last
session on disk, so `Cleanup` can change it.

## 3. Runs

All bounds are constants of the `.cfg` files or guards named as bounds in the
modules. Run `tlc -config X.cfg M` in this directory.

| Run | Module, cfg | Bounds | Result |
|---|---|---|---|
| update_loop | `UpdateLoop`, `UpdateLoop.cfg` | updates 1, 2, 4 | passes: `TypeOK`, `NothingLost`, `ReplayWindow`, `ConfirmedIsDurable`, `DeliversAtLeastOnce`, `EveryUpdateHandled` |
| session_lifecycle | `MCSessionLifecycle`, `SessionLifecycle.cfg` | 2 sessions, no turn begins once 2 run ids are taken | passes: `TypeOK`, `RoutedTopicHasRecord`, `WholeSessionAnswers`, `RunMissingOnlyIfTorn`, `QuietCleanupIsFinal`, `StaysUsable` |
| session_poison | `MCSessionLifecycle`, `SessionPoison.cfg` | 1 session | violates `KeepsPollingWithoutTopic` |
| session_revival | `MCSessionLifecycle`, `SessionRevival.cfg` | 1 session | violates `OnlyLaunchCreates` |
| session_support | `MCSessionSupport`, `SessionSupport.cfg` | 6 texts, 2 events a turn, budget 2, 3 attempts, 1 fault, the topic may be deleted | passes: `TypeOK`, `BudgetBetweenProgress`, `OwedIsFlagged`, `AttentionClears`, `RetiredIsFlagged`, `StuckSessionSettles` |
| support_budget | `MCSessionSupport`, `SupportBudget.cfg` | 2 texts, no fault, no deletion | violates `EveryDeliveryEnds` |
| support_card | `MCSessionSupport`, `SupportCard.cfg` | 6 texts, no fault, no deletion | violates `CardShowsLatestDecision` |
| live_turn | `MCLiveTurn`, `LiveTurn.cfg` | 2 lines of 3 kinds of event or too long, 2 sessions, 1 thing begun by the other actor, 1 fault | passes: `TypeOK`, `HandlerHasTheSession`, `ShownOnce`, `NothingWrittenIsLost`, `ShownIsActedOn`, `HealthyTurnSucceeds`, `CardIsCurrent`, `TurnReturns` |
| session_header | `SessionHeader`, `SessionHeader.cfg` | 1 session, 2 runs, 1 fault | passes: `TypeOK`, `OneHeader`, `TitleIsKnown`, `AttentionIsShown`, `CardsAreTrue` |
| deployment | `MCDeployment`, `Deployment.cfg` | 2 paths, 2 versions, 2 accounts, 2 configurations, 3 commands, 2 seconds | passes: `TypeOK`, `NoVersionIsLost`, `UpgradeTakesEffect`, `InstalledServiceCanRead` |
| draft_wizard | `MCDraftWizard`, `DraftWizard.cfg` | 1 user, 2 agents, 5 folders (one comes and goes), cards of 1 folder | passes: `TypeOK`, `StaysUnderStart`, `LaunchesAsPrompted`, `LastCardOpensWhatItNames`, `OneSessionPerDraft` |
| wizard_incomplete | `MCDraftWizard`, `WizardIncomplete.cfg` | as above, cards of 6 folders | violates `TaskStepIsComplete` |

Why these are enough:

- three updates give a finished one, one in hand and one in the batch, and the
  gap in the ids tells `id + 1` from "the next id";
- two sessions give two start goroutines and the main loop on either; sessions
  are symmetric. The bound on runs is checked where a turn begins, and up to
  three actors may begin one before it is reached, so starts, a resume and
  automatic replies overlap. The two sessions interact only through Main;
- the six texts are one for each kind of event `ParseTranscriptLine` and
  `ClassifyText` can produce, with the two kinds of question told apart; two
  events a turn give progress before, and a resolution after, a question; the
  budget is the code's 2. The topic can be deleted at any step, once, which is
  all that can happen to it, together with the fault: 699 176 states. The two
  runs that find a violation leave the deletion out (`MayVanish`), so that what
  they show needs none. Deadlock is not checked because a session that was
  retired, and a delivery that ended, may wait for a human for ever;
- two lines of a turn are enough for an event that repeats another (same text,
  with and without an id), for one the 100 ms cut off while the first is being
  shown, and for a long line before or after an event. The other actor begins
  one save with or without a refresh, `/status` or `/cleanup`, which overlaps the turn's refreshes at
  every step; the turn's own two projections give refreshes one after another,
  with the quiet save of its run before, between or after them: 959 065 states.
  Deadlock is not checked because a turn ends and a process exits;
- two runs of a session are a first turn and one more, a resume or an automatic
  reply, in either order with failures, so every redraw meets a run that is
  active, exited and failed, and both actors redraw at once. The second exception
  of `CardsAreTrue` takes a third run (one that works, one that fails, one that
  works); with it and without faults the property holds over 6.5 million states,
  too many for every day. Deadlock is not checked because the runs are used up;
- three commands are an installation and two upgrades or the like; two paths are
  the installed executable and another copy of it, two versions the one that
  runs and the one that replaces it, two seconds an upgrade within the same
  second and one after. Paths, versions and accounts are symmetric;
- the folder tree has a root, a home, two siblings and a grandchild, so that
  going up meets a root of each kind; cards of one folder make the limit bite.

Some properties name exceptions. Each is something the code does, which TLC
shows when the exception is dropped, and which a maintainer may want to know:

- `ReplayWindow`: the cursor follows the effects of an update, so a failure in
  between makes the next process repeat them, those of one update at most.
  `docs/runtime-ops.md` (recovery rules) asks for a resume "without duplicate
  visible delivery".
- `ShownOnce`: an event without an item id is shown twice by a resume, because
  its streamed copy and its result's copy carry different run ids; one of a kind
  without semantic key (tool activity) is shown twice by a start, too. And after
  a line of 64 KB the last message is projected again although it was shown.
- `NothingWrittenIsLost`: what the pty still held when the 100 ms had run out.
- `ShownIsActedOn`: what follows a line of 64 KB is shown and not acted on.
- `HealthyTurnSucceeds`: `/cleanup` of any session, while a start makes the
  control card, fails that start; so does a first line that is not read in the
  100 ms, as a start needs the thread id in it.
- `AttentionClears`: a turn that ends with nothing to act on leaves the request
  for a human if a save failed before, and if the topic turns out to be gone,
  also while that very request is cleared: the title or header card finds it
  gone, `retireMissingSessionTopic` asks for a human and returns nil, and the
  delivery ends as resolved. `RetiredIsFlagged` is what holds then.
- `CardIsCurrent`: refreshes that overlap may leave the older text. And what the
  card shows is as of the last refresh, not as of now: the run of a turn and the
  `ActiveRunID` that names it are saved without one, and a resume none of whose
  events is new makes none at all.
- `TitleIsKnown`: copies of two actors that remember different titles, and an
  edit whose save is lost, leave a title that is not the remembered one, and a
  later redraw may skip the one that is wanted.
- `CardsAreTrue`: "idle" is derived from the run on disk whenever something is
  redrawn, and nothing is redrawn once the run has ended. After a turn with
  nothing to decide, the header card still says "running", although
  `docs/architecture.md` promises the current state. And a failed turn sets the
  status to failed, which nothing sets back; the next turn that works clears the
  escalation label, the only reason for which a failed session is listed, so the
  control card counts a session that answers as none.

### What the violations show

Each is a disagreement between the code and a sentence of the repository:

- **session_poison.** "Session is still starting" is sent without the
  missing-topic treatment. After a start that was cut short, in a topic that
  was deleted, the pending message ends every process that receives it.
- **session_revival.** `finishStart` works on the copy it was launched with and
  saves it whole; a cleanup in between is undone. `QuietCleanupIsFinal` shows
  that this is the only way: a cleanup that meets no start goroutine is final.
- **support_budget.** Tool activity resets `ReplyAttemptCount`, and a turn that
  answers a question usually has some. `StuckSessionSettles` and
  `BudgetBetweenProgress` are what holds instead.
- **support_card.** `applySupportDecision` takes the snapshot by value; the
  caller then saves its own, older one. The card is right until the next event
  is projected, which brings the older support state back.
- **wizard_incomplete.** Type `.`, then tap a folder of the card above: the
  draft is at the task step without a folder and the next text launches it.

One more disagreement has no run of its own, as it is one branch of the policy and
the documents are at odds with the tests, too: `README.md:148` says that repeated blocker and question events
escalate without another model call; `policy.go:58` and `:70` ignore repeated ones,
as `policy_test.go:196-217` asserts, and so does `Ignores`.

## 4. Fairness

Safety is checked without any. For the liveness properties:

- `Start`, `Restart` (weak): the systemd unit has `Restart=on-failure` and
  `RestartSec=5s` (`cmd/vibegram/service.go`). A clean stop by an operator is
  assumed to be followed by a start.
- `Poll`, `HandleNext`, `HandlerReturns`, `SaveCursor` (strong): faults are
  transient. A step that is tried again and again succeeds in the end, however
  many crashes lie in between. A handler that fails for a lasting reason is
  outside `UpdateLoop` and is what `KeepsPollingWithoutTopic` is about.
- `Message`, `MessageFatal`, `StillStarting`, `ResumeBegins`, and Main's
  `TurnReturns`, `TurnSavesRun`, `TurnSavesSession`, `Delivered`: a redelivered
  message is handled first, and none of the calls that can succeed fails for
  ever. The counterexample uses only a call that cannot succeed.
- `Handler` in `SessionSupport` (weak): a provider turn ends and the handler
  goes on. The code sets no timeout on a turn of the main loop, so this is an
  assumption about the providers.
- `Reader`, `Handler` and `Projects` in `LiveTurn` (weak): goroutines are
  scheduled, the 100 ms pass and the local store answers. The reader is only
  taken to go on when it is not blocked: a read of the pty need not return
  before the master is closed. Nothing is assumed of Telegram (the client's HTTP
  calls have no deadline), which `TurnReturns` names, and nothing of the
  provider: that it exits is the premise.

## 5. Proofs

Every invariant and action property that a passing run checks is also a theorem,
for every value of the constants that satisfies the named assumptions, and so is
the refinement of `UpdateDelivery`. Each proof has the same shape: almost none of the
properties is inductive, so there is a stronger invariant (`IInv`, or the name
given below) that TLC has checked on the instance of the run; it holds initially
and every step keeps it, one named step per action; and it implies the property.

The bounds of the runs (`MaxLines`, `MaxRuns`, `MaxFaults`, `MaxRun`,
`MaxCommands`, `MaxTime`, `MaxOther`, `MaxAttempts`) are natural numbers of any size in the
theorems, so they bound nothing there. The other assumptions say what kind of
thing a constant is (ids are numbers, `Main` is no session, "no text" is no text,
lines are a text and an id, the marks for a missing and for a torn file are no
version), and three say what the environment does: `KindsAreEventTypes` (the parser
gives each text a kind of `events/types.go`), `FoldersAreATree` (with `Slash` its own
parent) and `SortedListsEach` (a listing has each folder of the directory once).

| Module | Theorem | States, for every `Spec` |
|---|---|---|
| `UpdateLoop_proofs` | `TypeCorrect` | `[]TypeOK` |
| | `NeverConfirmsEarly`, `LosesNothing`, `RepeatsAtMostOne` | `[]ConfirmedIsDurable`, `[]NothingLost`, `[]ReplayWindow` |
| | `HandlesInOrder` | `InOrder` (no run checks it by name; `DeliversAtLeastOnce` implies it) |
| | `ImplementsDelivery` | `DeliversAtLeastOnce`, the refinement |
| `SessionLifecycle_proofs` | `TypeCorrect` | `[]TypeOK` |
| | `TopicsLeadSomewhere`, `WholeSessionsAnswer` | `[]RoutedTopicHasRecord`, `[]WholeSessionAnswers` |
| | `OnlyTornLaunchesPoison`, `QuietCleanupStays` | `[]RunMissingOnlyIfTorn`, `[]QuietCleanupIsFinal` |
| | `StaysUsableHolds` | `StaysUsable`, an action property |
| `SessionSupport_proofs` | `TypeCorrect` | `[]TypeOK` |
| | `BudgetHolds`, `OwedStaysFlagged` | `[]BudgetBetweenProgress`, `[]OwedIsFlagged` |
| | `AttentionIsCleared`, `RetiredStaysFlagged` | `[]AttentionClears`, `[]RetiredIsFlagged` |
| `Stream_proofs` | `StreamTypeCorrect` | `[]StreamTypeOK` |
| | `OneAtATime`, `SaysEverything` | `[]HandlerHasTheSession`, `[]NothingWrittenIsLost` |
| | `ShowsOnce`, `ActsOnWhatItShows` | `[]ShownOnce`, `[]ShownIsActedOn` |
| `LiveTurn_proofs` | `ImplementsStream` | `StreamSpec`, the refinement |
| | `LiveOneAtATime`, `LiveSaysEverything`, `LiveShowsOnce`, `LiveActsOnWhatItShows` | the four above, for the composition |
| | `LiveTypeCorrect` | `[]TypeOK` |
| | `CardStaysCurrent`, `HealthyTurnsSucceed` | `[]CardIsCurrent`, `[]HealthyTurnSucceeds` |
| `SessionHeader_proofs` | `HeaderTypeCorrect`, `SendsOneHeader` | `[]TypeOK`, `[]OneHeader` |
| | `KnowsItsTitle`, `ShowsAttention`, `ShowsTheTruth` | `[]TitleIsKnown`, `[]AttentionIsShown`, `[]CardsAreTrue` |
| `Deployment_proofs` | `TypeCorrect` | `[]TypeOK` |
| | `NoVersionLost`, `UpgradeHolds`, `ServiceCanRead` | `[]NoVersionIsLost`, `[]UpgradeTakesEffect`, `[]InstalledServiceCanRead` |
| `DraftWizard_proofs` | `TypeCorrect` | `[]TypeOK` |
| | `DraftsStayUnderStart`, `LaunchesWhatWasPrompted` | `[]StaysUnderStart`, `[]LaunchesAsPrompted` |
| | `LastCardIsHonest`, `StartsOneSession` | `[]LastCardOpensWhatItNames`, `[]OneSessionPerDraft` |

**UpdateLoop** (any set of update ids, any number of crashes and batches). `IInv` is

- `TypeOK`;
- `OffsetInv`: between updates the offset equals the cursor; with an update in
  hand it is just past it. So what a poll confirms is what is on disk
  (`ConfirmedIsDurable`, the fifth conjunct);
- `BatchInv`: batch and update in hand are the oldest updates beyond the
  cursor, so handling the least of the batch skips none;
- `DoneInv`: what the cursor has passed is finished, and effects beyond it
  belong to the oldest update beyond it, which gives `ReplayWindow`.

The action property and the refinement follow from it step by step: `StepRefines`
shows that each step of the loop is a step of `UpdateDelivery` or none.

**SessionLifecycle** (any number of sessions and runs). The danger is a save of an
actor whose copy is older than the record. `IInv` says three things. *Who may be at
work*: `LaunchIsAlone`, `NotYetThere`, `Untouched`, `CleanedIsGone`, `Places`. *Runs
have one owner*: `RunsAreOwned` looks at records, copies and the targets of a
cleanup, and gives that the deletion or the failure of one session's run cannot
touch another's. *What a stale save takes away*: `RoutedWhileTopic` (no copy has lost
the topic while it exists) and `SameRun` (record and copy name different runs only
if both can be resumed). So whichever is saved last, a topic still leads to a
record (`RoutedTopicHasRecord`, with `MappedExists`), the record can still be resumed
(`WholeSessionAnswers`, `StaysUsable`), and a run is missing only in the one place
where the launch has saved the session and not yet the run (`RunMissingOnlyIfTorn`).

**SessionSupport** (any texts and classification of them, any budget, any number of
failed saves). `Counted` says of all three copies of the attempt count (snapshot,
record and the handler's own) that they hold every reply spent, but for the one
under way and one for each failure; a policy that replies has seen the count below
the budget, hence `BudgetBetweenProgress`. `OpenIsFlagged` follows a stream: as long as
every projection was saved, an actionable event that nothing has resolved is
flagged in all copies, so that a decision that leaves it to a human needs no save
of its own (`OwedIsFlagged`). An event "done" clears the flag as a resolution does.
`Together` says what `torn` means: until a save fails, the record of a session that
still has its topic asks for a human only if the snapshot does. With `Flow` (what is
still in the queue is the rest of what was said) it gives `AttentionClears`.
`RetiredInv` follows a session that was retired: all copies ask for a human from
then on, except from the moment an automatic reply writes the old snapshot back
until the next thing shown retires the session again, which is the turn's message
if nothing else is. Hence `RetiredIsFlagged`.

**Stream** (any texts, kinds, ids, lines). The properties speak of the end of a turn
and need the history of how it came there. `StreamInv` is

- `StreamTypeOK`;
- `TurnInv`: which of reader, pty and handler states go together; once the
  handler is past `joined` the reader is done (`HandlerHasTheSession`);
- `DrainInv`: a reader that is done has taken all that was written, unless the
  100 ms ran out;
- `ShownInv`: until the decision, what was shown are lines that were taken, in
  their own words;
- `SeenInv`: a key in the deduper is that of a line that was shown;
- `UniqueInv`: item ids do not come back. With the two before: an event that the
  deduper refuses has been shown itself or in its words;
- `ToldInv`: so the news of every line taken is in the topic. `DrainInv` then
  gives `NothingWrittenIsLost`;
- `TakenInv`, `FirstInv`, `MarkedInv`: a line that was taken has left its semantic key,
  so one that is shown later is the first with its text, and what was shown has
  left its keys in one pass or the other. A second showing is then one that the
  other pass could not recognise, which is what `ShownOnce` allows;
- `ShownIsActedOn`: a quiet end means that the second pass found nothing
  actionable. If one of the lines it scans is actionable, the first such line
  (`LeastOf`) repeats no earlier one, so it is found (`ActionableIsFound`).

**LiveTurn** (any sessions, faults and things the other actor does).
`ImplementsStream` shows `Spec => StreamSpec`: each step of the composition is a step
of the turn or leaves the turn alone. So what is proved of a turn holds of one
that shares the control card: what the card and other actors do, errors included,
takes nothing from a turn that is delivered. The card itself needs `LiveInv`:
`SoundInv` says, of a refresh that nobody disturbs, what it has achieved at each step
(what is read is no older than `since` and no newer than the record, then the whole
text, then the message), which quiet saves do not disturb as they only raise the
record, and that while the history `sound` is set no second actor refreshes; `BlameInv` says that a record
that is listed stays unless `/cleanup` removes one, so that every failed refresh has
a fault or a cleanup to blame; `HasTarget` says that what is edited exists.

**SessionHeader** (any number of runs and of failures). `OneHeader` is not inductive:
whoever redraws decides by its own copy whether a card has to be sent, and the
copy may be older than the card. `HeaderInv` says why that does no harm, whatever
fails:

- `CopiesKnow`: everyone at work but the creator has a copy that knows the card;
- `NotYetSent`: nothing is sent before the creator has come to it;
- `UnknownIsUnused`: a record that does not know its card is one of a launch that
  has not got further. Its run is the first and still active, so that no message
  can resume it, and the goroutine that would end the run is not there yet.

So a launch that dies between the sending of the card and its save never sends
another: it leaves a run that stays active, which nothing in the code ends after
a restart, and a session that no message can revive (`SessionLifecycle`).

`ShownInv`, inductive together with it, carries what is shown from step to step.
`TitleKept`: the actor at work remembers the title Telegram has, and so does the
record but for the moment before its save. `QuietInv`: at each step of a redraw those
of title, card and listing that are already drawn suit the copy (`HasDrawn`), and at
rest all of them suit the record (`HasShown`). `Titles`, `Faces` and `Lists` are what
suits a mood; that `Faces` allows "running" for "idle", and that `Lists` needs nothing
of a failed session, are the two exceptions of `CardsAreTrue`. As the properties it
speaks of states without overlap and without fault.

**Deployment** (any number of copies, releases, accounts, configurations, commands and
seconds). A command that is cut short leaves its traces where they are, so the
invariant says of every point of a script what has been done by then. `OnScript`: the
steps to do are the last of the script. `Installing`: so many steps before the end of
an installation the file is written, the account exists, the group and mode are set,
the unit is written and loaded. `Readable`: when no installation is unfinished, the
accounts of the unit on disk and of the loaded one can read the file, which survives
`init` because that keeps the mode and the group of an existing file. `Backing`: the
backup is whole before the program is replaced, and torn only in the step before,
under a name no other backup has. `Upgrading`: what of an upgrade has taken effect
when two steps are left and when one is.

**DraftWizard** (any users, agents, directory tree, limit). Buttons are never
revoked, so the invariant is about the draft, whatever was pressed: `Rooted` (the
current folder and the one to launch in are under the root, each start under its
own), `AsShown` (at the task step agent and folder are those prompted or none; the
choices are the last ones listed) and that a draft that is still there has started
nothing. `ParentPathStays`, `InsideIsWithin` and `StartsAreRooted` are the lemmas about
paths; `BrowsePromptKeeps` and `TaskPromptKeeps` do for all handlers that end in one of
the two prompts.

Only model-checked: the liveness properties (`EveryUpdateHandled`,
`StuckSessionSettles`, `TurnReturns`), out of the prover's reach as they rest on
fairness and on which actions are enabled; and the five properties that are violated,
whose counterexamples are runs.

## 6. Not modelled

- Formatting, labels, the words of a title, HTTP, authorisation (a single set
  lookup), the general support chat (one prompt, one answer, no state).
- The file system below a rename: temp files and a missing `fsync` matter after
  a power failure only, and no module follows what a disk had written then.
- Claude's stream: its runner has none, and a turn is one step that returns or
  fails.
- How a transcript line is parsed; a line is an event or is too long.
- `service print`, `service status` and `service logs`, flags, prompts, detected
  paths, and the download, checksum and extraction of an upgrade, which touch
  nothing that is modelled. `systemctl enable --now` does not restart a service
  that runs, so a second `install` leaves the old process running: `EnableNow`
  does that, and no document says otherwise, so there is no property.
- Code nothing calls at run time: `telegram/inbound.go`, `telegram/ledger.go`,
  `providers/provider.go`, `providers/claude/adapter.go`,
  `app/runtime_project_context.go`.
- A second `vibegram` process on the same state directory.
- Messages to a session's topic by users without permission, and empty texts:
  they change nothing.

## 7. Plan

Done: all modules of section 2, and theorems about every component's safety.

Open:

1. `Stream`'s `ShownOnce` names its exceptions by ids and kinds; an abstract log, to
   which each item is appended once per pass, would say the same as a refinement.
2. An abstract session (launched, answering, gone) that `SessionLifecycle`
   implements, from the same invariant.
3. `StoreFile`, the temp file below a rename, whose abstract counterpart is a
   register with atomic writes.
