------------------------------ MODULE LiveTurn ------------------------------
(***************************************************************************)
(* A streamed turn and the control card together.  Whatever the turn shows *)
(* is also a save of its session and a refresh of the control card, made   *)
(* inside the reader's OnLine: how long it takes decides whether the       *)
(* 100 ms of the runner are enough, and its errors decide whether the turn *)
(* counts as failed.  Meanwhile somebody else changes sessions and         *)
(* refreshes the same card:                                                *)
(*                                                                         *)
(*   - if the turn is a start, which has a goroutine of its own, the main  *)
(*     loop: messages in another session, /status, /cleanup.  An error of  *)
(*     the main loop ends the process;                                     *)
(*   - if the turn is a resume it is itself in the main loop, and the      *)
(*     other is the start of another session, whose errors end nothing.    *)
(*                                                                         *)
(* A call that finds the topic gone retires the session and is no error    *)
(* (SessionLifecycle, SessionSupport).  The plain message at the end of a  *)
(* delivery, the record of a failed turn and what support answers are not  *)
(* followed here (SessionSupport).                                         *)
(***************************************************************************)
EXTENDS Stream, ControlCard

CONSTANTS
  Own,       \* the session of the turn
  MaxOther   \* bound: what the other actor begins

ASSUME OwnIsASession == Own \in Sessions
ASSUME ActorsOfATurn == Actors = {"turn", "other"}
ASSUME MaxOtherIsNatural == MaxOther \in Nat

VARIABLES
  up,       \* the process runs
  begun,    \* how much the other actor has begun
  cleaned   \* history: /cleanup has removed a record

liveVars == <<up, begun, cleaned>>
vars == <<streamVars, cardVars, liveVars>>

Init ==
  /\ StreamInit /\ CardInit
  /\ up = TRUE /\ begun = 0 /\ cleaned = FALSE

-----------------------------------------------------------------------------
(* Steps of the turn that touch nobody else.                               *)
Provider == up /\ ProviderNext /\ UNCHANGED <<cardVars, liveVars>>
Reader == up /\ ReaderNext /\ UNCHANGED <<cardVars, liveVars>>
Handler == up /\ HandlerNext /\ UNCHANGED <<cardVars, liveVars>>

(* projectSessionEvent, upsertSessionHeaderCard, sendEvent.                *)
Projects == up /\ Showing /\ Save("turn", Own) /\ UNCHANGED liveVars
Projected(ok) == up /\ Shown(ok) /\ Returns("turn", ok) /\ UNCHANGED liveVars

(* The turn has returned and is recorded, past the control card.           *)
Accepts(ok) ==
  /\ up /\ TurnAccepted(ok)
  /\ IF ok THEN SaveQuietly(Own) ELSE SaveQuietlyFails
  /\ UNCHANGED liveVars

RefreshStep(a) == up /\ Refreshes(a) /\ UNCHANGED <<streamVars, liveVars>>

-----------------------------------------------------------------------------
(* The other actor.                                                        *)
OtherBegins == up /\ begun < MaxOther /\ begun' = begun + 1 /\ UNCHANGED streamVars

OtherSaves ==
  /\ OtherBegins /\ UNCHANGED <<up, cleaned>>
  /\ \E s \in Sessions \ {Own} : Save("other", s)

(* A turn of another session, or an automatic reply in one, is recorded.   *)
OtherRecords(ok) ==
  /\ OtherBegins /\ Idle("other") /\ UNCHANGED cleaned
  /\ IF ok
       THEN /\ \E s \in Sessions \ {Own} : records[s] # 0 /\ SaveQuietly(s)
            /\ UNCHANGED up
       ELSE SaveQuietlyFails /\ up' = (how = "resume")

MainStatus == how = "start" /\ OtherBegins /\ Status("other") /\ UNCHANGED <<up, cleaned>>

MainCleanup ==
  /\ how = "start" /\ OtherBegins /\ UNCHANGED up
  /\ \E s \in Sessions : Cleanup("other", s)
  /\ cleaned' = TRUE

OtherReturns(ok) ==
  /\ up /\ Returns("other", ok)
  /\ up' = (ok \/ how = "resume")
  /\ UNCHANGED <<streamVars, begun, cleaned>>

-----------------------------------------------------------------------------
Next ==
  \/ Provider \/ Reader \/ Handler
  \/ Projects
  \/ \E ok \in BOOLEAN : Projected(ok) \/ Accepts(ok) \/ OtherRecords(ok) \/ OtherReturns(ok)
  \/ \E a \in Actors : RefreshStep(a)
  \/ OtherSaves \/ MainStatus \/ MainCleanup

Spec == Init /\ [][Next]_vars

(* The goroutines are scheduled and the 100 ms pass; the store answers.    *)
(* Nothing is assumed of Telegram, whose calls have no deadline here       *)
(* (telegram.NewClient), and nothing of the provider and its children: a   *)
(* read of the pty need not return before the master is closed.            *)
Unblocked == taken < fetched \/ fetched < Len(written) \/ closed
Fairness == WF_vars(Reader /\ Unblocked) /\ WF_vars(Handler) /\ WF_vars(Projects)

FairSpec == Spec /\ Fairness

-----------------------------------------------------------------------------
TypeOK ==
  /\ StreamTypeOK /\ CardTypeOK
  /\ up \in BOOLEAN /\ begun \in 0 .. MaxOther /\ cleaned \in BOOLEAN

(* A turn the provider has done well counts as failed only because of a    *)
(* call or a save that failed, because /cleanup removed some session's     *)
(* record while the control card was being made, or because the 100 ms     *)
(* were over before the first line was read.  That other sessions change   *)
(* and the card is missing, unchanged or replaced does not fail it         *)
(* (finishStart, refreshGeneralControlCardIfPresent, ListSessions).        *)
HealthyTurnSucceeds ==
  outcome \in {"failed", "broken"} =>
    ~accepted \/ faults > 0 \/ cleaned \/ (late /\ taken = 0)

(* Once the provider has exited the turn ends, also when a child of the    *)
(* provider keeps the pty open for ever, unless a call to Telegram never   *)
(* returns or the process ends (Runner.run).                               *)
Calling == reader = "showing" \/ turn = "showing"
TurnReturns == proc = "exited" ~> (turn = "over" \/ ~up \/ []Calling)
=============================================================================
