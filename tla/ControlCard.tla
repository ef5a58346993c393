---------------------------- MODULE ControlCard ----------------------------
(***************************************************************************)
(* The control card in the General topic: one message that lists the       *)
(* sessions, kept by whoever changed one (refreshGeneralControlCard).  A   *)
(* refresh lists the directory of session records, reads them one by one,  *)
(* looks up the message in the cursor file, edits it, and sends a new one  *)
(* if that fails.  Nothing keeps two refreshes apart.                      *)
(*                                                                         *)
(* A session is shown by a version: how often it was saved.  Its record,   *)
(* its snapshot and its active run, from all of which its entry is made    *)
(* (displaySession), count as one file here.  Left out are the selection   *)
(* of the sessions that are active, their order and the layout.            *)
(*                                                                         *)
(* Most saves are followed by a refresh.  The run of a turn that has       *)
(* returned, and with it the record that names it, is saved without one    *)
(* (SaveQuietly): the card shows what it did until the next refresh.       *)
(***************************************************************************)
EXTENDS Naturals, Sequences

CONSTANTS
  Actors,     \* who refreshes: the main loop, the goroutines of starts
  Sessions,   \* sessions, numbered in the order of their file names
  MaxFaults   \* bound: Telegram calls and saves that fail

ASSUME SessionsAreNumbers == Sessions \subseteq Nat
ASSUME MaxFaultsIsNatural == MaxFaults \in Nat

VARIABLES
  records,  \* disk: version of each session's record, 0 for none
  cursor,   \* disk: general_control_card_message_id, 0 for none
  cards,    \* Telegram: the text of each card sent
  step,     \* actors: where the refresh is
  unread,   \* actors: records listed and not read yet
  text,     \* actors: the text made so far
  target,   \* actors: the message to edit, then the one sent
  since,    \* history: the records when the last refresh began
  sound,    \* history: the last refresh began while no other ran, none has
            \* begun since, and it has not failed
  faults    \* history: failed calls and saves

actorVars == <<step, unread, text, target>>
cardVars == <<records, cursor, cards, actorVars, since, sound, faults>>

NoSession == [s \in Sessions |-> 0]

(* There is no card yet, or one that an earlier process has made.          *)
CardInit ==
  /\ records \in [Sessions -> {1}]
  /\ \/ cursor = 0 /\ cards = <<>>
     \/ cursor = 1 /\ cards = <<NoSession>>
  /\ step = [a \in Actors |-> "idle"]
  /\ unread = [a \in Actors |-> {}]
  /\ text = [a \in Actors |-> NoSession]
  /\ target = [a \in Actors |-> 0]
  /\ since = records /\ sound = FALSE /\ faults = 0

Idle(a) == step[a] = "idle"
Goes(a, to) == step' = [step EXCEPT ![a] = to]
Fault == faults < MaxFaults /\ faults' = faults + 1

-----------------------------------------------------------------------------
(* A refresh.                                                              *)

Begins(a, first) ==
  /\ Idle(a)
  /\ Goes(a, first)
  /\ since' = records'
  /\ sound' = (\A b \in Actors : Idle(b))
  /\ UNCHANGED <<cursor, cards, unread, text, target>>

(* The session is saved and its own card edited, then the refresh begins;  *)
(* if that edit fails there is none (projectSessionEvent).                 *)
Save(a, s) ==
  /\ records' = [records EXCEPT ![s] = @ + 1]
  /\ \/ Begins(a, "present") /\ UNCHANGED faults
     \/ /\ Idle(a) /\ Goes(a, "failed") /\ Fault
        /\ sound' = FALSE
        /\ UNCHANGED <<cursor, cards, unread, text, target, since>>

(* A turn has returned and its run is saved, after that of a resume or of  *)
(* an automatic reply the record, which now names it.  No card is touched. *)
(* The run of a start does not bring back a record that was cleaned up.    *)
SaveQuietly(s) ==
  /\ records' = [records EXCEPT ![s] = IF @ = 0 THEN 0 ELSE @ + 1]
  /\ UNCHANGED <<cursor, cards, actorVars, since, sound, faults>>

(* One of these saves fails: the record names the run before.              *)
SaveQuietlyFails ==
  /\ Fault
  /\ UNCHANGED <<records, cursor, cards, actorVars, since, sound>>

(* /status makes the card if there is none.                                *)
Status(a) == UNCHANGED <<records, faults>> /\ Begins(a, "list")

(* /cleanup removes a record and leaves the card as it is.                 *)
Cleanup(a, s) ==
  /\ Idle(a) /\ records[s] # 0
  /\ records' = [records EXCEPT ![s] = 0]
  /\ UNCHANGED <<cursor, cards, actorVars, since, sound, faults>>

(* Mutant: no cursor file is an error.                                     *)
MissingCursorFails(a) ==
  /\ step[a] = "present"
  /\ IF cursor = 0 THEN Goes(a, "failed") /\ sound' = FALSE
                   ELSE Goes(a, "list") /\ UNCHANGED sound
  /\ UNCHANGED <<records, cursor, cards, unread, text, target, faults, since>>

(* refreshGeneralControlCardIfPresent.                                     *)
IfPresent(a) ==
  /\ step[a] = "present"
  /\ Goes(a, IF cursor = 0 THEN "done" ELSE "list")
  /\ UNCHANGED <<records, cursor, cards, unread, text, target, sound, faults, since>>

(* ListSessions reads the directory.                                       *)
ListSessions(a) ==
  /\ step[a] = "list" /\ Goes(a, "read")
  /\ unread' = [unread EXCEPT ![a] = {s \in Sessions : records[s] # 0}]
  /\ text' = [text EXCEPT ![a] = NoSession]
  /\ UNCHANGED <<records, cursor, cards, target, sound, faults, since>>

(* ... and then one file after the other.  One that was removed meanwhile  *)
(* is an error, and the refresh ends.                                      *)
ReadRecord(a, s) ==
  /\ step[a] = "read" /\ s \in unread[a] /\ \A r \in unread[a] : s <= r
  /\ IF records[s] # 0
       THEN /\ text' = [text EXCEPT ![a][s] = records[s]]
            /\ unread' = [unread EXCEPT ![a] = @ \ {s}]
            /\ UNCHANGED <<step, sound>>
       ELSE /\ Goes(a, "failed") /\ sound' = FALSE
            /\ unread' = [unread EXCEPT ![a] = {}]
            /\ UNCHANGED text
  /\ UNCHANGED <<records, cursor, cards, target, faults, since>>

FindCard(a) ==
  /\ step[a] = "read" /\ unread[a] = {}
  /\ target' = [target EXCEPT ![a] = cursor]
  /\ Goes(a, IF cursor = 0 THEN "send" ELSE "edit")
  /\ UNCHANGED <<records, cursor, cards, unread, text, sound, faults, since>>

(* The edit succeeds; one that changes nothing is refused by Telegram and  *)
(* counts as one.                                                          *)
EditCard(a) ==
  /\ step[a] = "edit" /\ Goes(a, "done")
  /\ cards' = [cards EXCEPT ![target[a]] = text[a]]
  /\ UNCHANGED <<records, cursor, unread, text, target, sound, faults, since>>

(* A call that fails may have reached Telegram all the same.               *)
EditFails(a) ==
  /\ step[a] = "edit" /\ Goes(a, "send") /\ Fault
  /\ cards' \in {cards, [cards EXCEPT ![target[a]] = text[a]]}
  /\ UNCHANGED <<records, cursor, unread, text, target, sound, since>>

SendCard(a) ==
  /\ step[a] = "send" /\ Goes(a, "save")
  /\ cards' = Append(cards, text[a])
  /\ target' = [target EXCEPT ![a] = Len(cards')]
  /\ UNCHANGED <<records, cursor, unread, text, sound, faults, since>>

SendFails(a) ==
  /\ step[a] = "send" /\ Goes(a, "failed") /\ Fault
  /\ cards' \in {cards, Append(cards, text[a])}
  /\ sound' = FALSE
  /\ UNCHANGED <<records, cursor, unread, text, target, since>>

(* Mutant: only the first card is remembered.                              *)
SaveFirstCursor(a) ==
  /\ step[a] = "save" /\ Goes(a, "done")
  /\ cursor' = IF cursor = 0 THEN target[a] ELSE cursor
  /\ UNCHANGED <<records, cards, unread, text, target, sound, faults, since>>

(* Mutant: the id is saved as the update cursor is, plus one.              *)
SaveCursorPlusOne(a) ==
  /\ step[a] = "save" /\ Goes(a, "done")
  /\ cursor' = target[a] + 1
  /\ UNCHANGED <<records, cards, unread, text, target, sound, faults, since>>

SaveCursor(a) ==
  /\ step[a] = "save" /\ Goes(a, "done")
  /\ cursor' = target[a]
  /\ UNCHANGED <<records, cards, unread, text, target, sound, faults, since>>

SaveCursorFails(a) ==
  /\ step[a] = "save" /\ Goes(a, "failed") /\ Fault
  /\ sound' = FALSE
  /\ UNCHANGED <<records, cursor, cards, unread, text, target, since>>

Refreshes(a) ==
  \/ IfPresent(a) \/ ListSessions(a) \/ FindCard(a)
  \/ \E s \in Sessions : ReadRecord(a, s)
  \/ EditCard(a) \/ EditFails(a)
  \/ SendCard(a) \/ SendFails(a)
  \/ SaveCursor(a) \/ SaveCursorFails(a)

(* The caller goes on with the result of its refresh; the message it sends *)
(* next may fail in its turn (sendEvent).                                  *)
Returns(a, ok) ==
  /\ \/ step[a] = "done" /\ ok /\ UNCHANGED faults
     \/ step[a] = "done" /\ ~ok /\ Fault
     \/ step[a] = "failed" /\ ~ok /\ UNCHANGED faults
  /\ Goes(a, "idle")
  /\ text' = [text EXCEPT ![a] = NoSession] /\ target' = [target EXCEPT ![a] = 0]
  /\ UNCHANGED <<records, cursor, cards, unread, sound, since>>

-----------------------------------------------------------------------------
CardTypeOK ==
  /\ records \in [Sessions -> Nat]
  /\ cards \in Seq([Sessions -> Nat]) /\ cursor \in 0 .. Len(cards)
  /\ step \in [Actors -> {"idle", "present", "list", "read", "edit", "send", "save",
                          "done", "failed"}]
  /\ unread \in [Actors -> SUBSET Sessions]
  /\ text \in [Actors -> [Sessions -> Nat]]
  /\ target \in [Actors -> 0 .. Len(cards)]
  /\ since \in [Sessions -> Nat] /\ sound \in BOOLEAN /\ faults \in 0 .. MaxFaults

(* When the refreshes are over and did not overlap, the card shows every   *)
(* session as it was on disk when the last one began or later, on          *)
(* whichever message the card is now, and also when edits failed on the    *)
(* way (refreshGeneralControlCardResult).  It is the present state unless  *)
(* a turn's run was saved since: a resume none of whose events is new, an  *)
(* automatic reply and the end of a start save it and refresh nothing.     *)
CardIsCurrent ==
  sound /\ cursor # 0 /\ (\A a \in Actors : Idle(a)) =>
    \A s \in Sessions : records[s] # 0 => cards[cursor][s] \in since[s] .. records[s]
=============================================================================
