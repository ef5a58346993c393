----------------------------- MODULE UpdateLoop -----------------------------
(***************************************************************************)
(* App.Run (internal/app/app.go): the daemon's only driver.  It long-polls *)
(* Telegram, hands each update to Runtime.HandleUpdate and saves the       *)
(* update cursor after each one, so that a restarted process continues     *)
(* where the last one stopped.  The process may be killed at any point, a  *)
(* handler or a cursor write may fail (Run then returns the error and the  *)
(* process exits), and systemd starts it again.                            *)
(*                                                                         *)
(* A handler is a begin, an optional irreversible effect (a provider turn, *)
(* a Telegram message, a new topic) and a return: what it does in detail   *)
(* is the subject of SessionLifecycle and DraftWizard.                     *)
(***************************************************************************)
EXTENDS Naturals

CONSTANT UpdateIds

ASSUME UpdateIdsAreNaturals == UpdateIds \subseteq Nat

VARIABLES
  arrived,    \* Telegram: updates caused by users so far
  confirmed,  \* Telegram: updates below this offset are forgotten
  cursor,     \* disk: the "telegram_updates" cursor, 0 when there is no file
  phase,      \* where the process is in Run, or "down"
  offset,     \* process: the variable offset of Run
  batch,      \* process: updates of the current GetUpdates answer still to do
  current,    \* process: the update in HandleUpdate (0 when there is none)
  acted,      \* history: updates whose handler took its irreversible effect
  completed   \* history: updates whose HandleUpdate has returned nil

process == <<phase, offset, batch, current>>
history == <<acted, completed>>
vars == <<arrived, confirmed, cursor, process, history>>

Phases == {"down", "poll", "next", "handling", "saving"}

Init ==
  /\ arrived = {}
  /\ confirmed = 0
  /\ cursor = 0
  /\ phase = "down" /\ offset = 0 /\ batch = {} /\ current = 0
  /\ acted = {} /\ completed = {}

-----------------------------------------------------------------------------
(* The Telegram side.                                                      *)

(* An update arrives.  Ids grow and may skip numbers.                      *)
Arrive(u) ==
  /\ \A x \in arrived : x < u
  /\ arrived' = arrived \cup {u}
  /\ UNCHANGED <<confirmed, cursor, process, history>>

(* Asking for updates from offset o on tells Telegram to forget all older  *)
(* ones; without an offset parameter (o = 0) it forgets nothing.           *)
ConfirmedBy(o) == IF o > confirmed THEN o ELSE confirmed

(* An answer holds the oldest updates that are not forgotten, any number.  *)
IsAnswer(S, o) ==
  /\ S \subseteq {u \in arrived : ConfirmedBy(o) <= u}
  /\ \A u \in S, x \in arrived \ S : ConfirmedBy(o) <= x => u < x

-----------------------------------------------------------------------------
(* The process.                                                            *)

(* The process ends and its memory is gone.                                *)
Exit ==
  /\ phase' = "down" /\ offset' = 0 /\ batch' = {} /\ current' = 0
  /\ UNCHANGED <<arrived, confirmed, cursor, history>>

(* Mutant: Run starts at the last finished update instead of after it.     *)
StartOneBack ==
  /\ phase = "down"
  /\ phase' = "poll"
  /\ offset' = cursor - 1
  /\ UNCHANGED <<arrived, confirmed, cursor, batch, current, history>>

(* Run starts: Init, registerTelegramCommands, LoadCursor.  A failure of   *)
(* any of these ends the process again, which is no step.                  *)
Start ==
  /\ phase = "down"
  /\ phase' = "poll"
  /\ offset' = cursor
  /\ UNCHANGED <<arrived, confirmed, cursor, batch, current, history>>

(* GetUpdates answers with updates.                                        *)
Poll ==
  /\ phase = "poll"
  /\ \E S \in (SUBSET arrived) \ {{}} : IsAnswer(S, offset) /\ batch' = S
  /\ confirmed' = ConfirmedBy(offset)
  /\ phase' = "next"
  /\ UNCHANGED <<arrived, cursor, offset, current, history>>

(* GetUpdates fails, or answers with no update: Run waits and asks again.  *)
(* Telegram may have seen the offset all the same.                         *)
PollEmpty ==
  /\ phase = "poll"
  /\ confirmed' = ConfirmedBy(offset)
  /\ UNCHANGED <<arrived, cursor, process, history>>

(* The range loop takes the next update of the batch: the offset moves     *)
(* past it before HandleUpdate is called.                                  *)
HandleNext(u) ==
  /\ phase = "next"
  /\ u \in batch
  /\ \A x \in batch : u <= x
  /\ offset' = IF offset <= u THEN u + 1 ELSE offset
  /\ current' = u
  /\ batch' = batch \ {u}
  /\ phase' = "handling"
  /\ UNCHANGED <<arrived, confirmed, cursor, history>>

(* The handler does something that cannot be taken back.                   *)
HandlerActs ==
  /\ phase = "handling"
  /\ acted' = acted \cup {current}
  /\ UNCHANGED <<arrived, confirmed, cursor, process, completed>>

(* HandleUpdate returns nil.                                               *)
HandlerReturns ==
  /\ phase = "handling"
  /\ completed' = completed \cup {current}
  /\ phase' = "saving"
  /\ UNCHANGED <<arrived, confirmed, cursor, offset, batch, current, acted>>

(* Mutant: a handler's error is swallowed and the loop saves the cursor.   *)
HandlerFailsSwallowed ==
  /\ phase = "handling"
  /\ phase' = "saving"
  /\ UNCHANGED <<arrived, confirmed, cursor, offset, batch, current, history>>

(* HandleUpdate returns an error: Run returns it and the cursor stays.     *)
HandlerFails == phase = "handling" /\ Exit

(* Mutant: the cursor is saved once per batch instead of once per update.  *)
SaveCursorPerBatch ==
  /\ phase = "saving"
  /\ cursor' = IF batch = {} THEN offset ELSE cursor
  /\ phase' = IF batch = {} THEN "poll" ELSE "next"
  /\ current' = 0
  /\ UNCHANGED <<arrived, confirmed, offset, batch, history>>

(* Mutant: the cursor is saved for the update, not for the one after it.   *)
SaveCursorOffByOne ==
  /\ phase = "saving"
  /\ cursor' = current
  /\ phase' = IF batch = {} THEN "poll" ELSE "next"
  /\ current' = 0
  /\ UNCHANGED <<arrived, confirmed, offset, batch, history>>

(* SaveCursor replaces the cursor file; the loop goes on with the batch or *)
(* polls again.                                                            *)
SaveCursor ==
  /\ phase = "saving"
  /\ cursor' = offset
  /\ phase' = IF batch = {} THEN "poll" ELSE "next"
  /\ current' = 0
  /\ UNCHANGED <<arrived, confirmed, offset, batch, history>>

(* Mutant: an error of SaveCursor is logged and the loop goes on.          *)
SaveCursorErrorIgnored ==
  /\ phase = "saving"
  /\ phase' = IF batch = {} THEN "poll" ELSE "next"
  /\ current' = 0
  /\ UNCHANGED <<arrived, confirmed, cursor, offset, batch, history>>


SaveCursorFails == phase = "saving" /\ Exit

(* The context is cancelled: Run notices at the top of its loop.           *)
Stop == phase = "poll" /\ Exit

(* The process is killed.                                                  *)
Crash == phase # "down" /\ Exit

Next ==
  \/ \E u \in UpdateIds : Arrive(u)
  \/ \E u \in UpdateIds : HandleNext(u)
  \/ Start
  \/ Poll
  \/ PollEmpty
  \/ HandlerActs
  \/ HandlerReturns
  \/ HandlerFails
  \/ SaveCursor
  \/ SaveCursorFails
  \/ Stop
  \/ Crash

Spec == Init /\ [][Next]_vars

(* systemd restarts the service (Restart=on-failure).  Faults are          *)
(* transient: a poll, a handler or a cursor write that is tried again and  *)
(* again succeeds in the end, however often the process ends in between.   *)
FairSpec ==
  /\ Spec
  /\ WF_vars(Start)
  /\ SF_vars(Poll)
  /\ \A u \in UpdateIds : SF_vars(HandleNext(u))
  /\ SF_vars(HandlerReturns)
  /\ SF_vars(SaveCursor)

-----------------------------------------------------------------------------
(* Properties.                                                             *)

TypeOK ==
  /\ arrived \subseteq UpdateIds
  /\ confirmed \in Nat
  /\ cursor \in Nat
  /\ phase \in Phases
  /\ offset \in Nat
  /\ batch \subseteq arrived
  /\ current \in Nat
  /\ (phase \in {"handling", "saving"} => current \in arrived)
  /\ acted \subseteq arrived
  /\ completed \subseteq arrived

(* An update that Telegram has forgotten, or that the saved cursor has     *)
(* passed (so that no restart asks for it), was handled to the end: moving *)
(* the offset before HandleUpdate and failing in between loses nothing.    *)
NothingLost ==
  \A u \in arrived : u < confirmed \/ u < cursor => u \in completed

(* A restart repeats the work of at most one update: of all updates whose  *)
(* handler took effect or finished, only one can lie beyond the saved      *)
(* cursor, whatever the batch size.                                        *)
ReplayWindow ==
  \A u, v \in acted \cup completed :
    cursor <= u /\ cursor <= v => u = v

(* Telegram is never told to forget an update the disk does not know to be *)
(* done, even when a poll's answer is lost.                                *)
ConfirmedIsDurable == confirmed <= cursor

(* HandleUpdate is called on an update only when every older one has been  *)
(* handled to the end, and never on one the cursor has passed.             *)
InOrder ==
  [][phase' = "handling" /\ phase # "handling" =>
       /\ cursor <= current'
       /\ \A x \in arrived : x < current' => x \in completed]_vars

(* Every update is handled in the end and the cursor moves past it.        *)
EveryUpdateHandled ==
  \A u \in UpdateIds : u \in arrived ~> u \in completed /\ u < cursor

(* The loop implements in-order, at-least-once delivery, the cursor file   *)
(* being the acknowledgement.                                              *)
Delivery == INSTANCE UpdateDelivery WITH
  acked <- cursor,
  active <- IF phase \in {"handling", "saving"} THEN {current} ELSE {}

DeliversAtLeastOnce == Delivery!Spec
=============================================================================
