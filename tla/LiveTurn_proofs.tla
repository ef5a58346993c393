--------------------------- MODULE LiveTurn_proofs ---------------------------
(***************************************************************************)
(* A turn that shares the control card with another actor is a streamed    *)
(* turn all the same: neither the refreshes inside the reader's and the    *)
(* handler's calls, nor the other actor, nor the end of the process can do *)
(* to it what Stream does not allow.  So what is proved of Stream holds of *)
(* LiveTurn.  The card in its turn is right when refreshes did not overlap *)
(* and a turn is not failed by anybody else's, for any number of sessions, *)
(* faults and things the other actor does.                                 *)
(***************************************************************************)
EXTENDS LiveTurn, Stream_proofs, SequenceTheorems

-----------------------------------------------------------------------------
(* The control card.                                                       *)

Working(a) == ~Idle(a)
SinceThen(s) == since[s] .. records[s]
Shows(shownText) == \A s \in Sessions : records[s] # 0 => shownText[s] \in SinceThen(s)
CardShows == cursor # 0 => Shows(cards[cursor])

(* What a refresh that nobody else disturbs has achieved at each step.     *)
Achieved(a) ==
  /\ step[a] = "read" =>
       \A s \in Sessions : records[s] # 0 => s \in unread[a] \/ text[a][s] \in SinceThen(s)
  /\ step[a] \in {"edit", "send", "save"} => Shows(text[a])
  /\ step[a] = "edit" => target[a] = cursor
  /\ step[a] = "save" => cards[target[a]] = text[a]
  /\ step[a] = "done" => CardShows
  /\ step[a] # "failed"

(* While the last refresh is sound nobody but its actor is at work.        *)
SoundInv ==
  sound =>
    /\ \A s \in Sessions : records[s] # 0 => since[s] <= records[s]
    /\ \A a, b \in Actors : Working(a) /\ Working(b) => a = b
    /\ \A a \in Actors : Working(a) => Achieved(a)
    /\ (\A a \in Actors : Idle(a)) => CardShows

(* A record that is listed stays, until /cleanup removes one; only that or *)
(* a fault makes a refresh fail.                                           *)
Blame == faults > 0 \/ cleaned
BlameInv ==
  /\ \A a \in Actors : \A s \in unread[a] : records[s] # 0 \/ cleaned
  /\ \A a \in Actors : step[a] = "failed" => Blame
  /\ streamErr => Blame
  /\ HealthyTurnSucceeds

(* A message is edited only where there is one.                            *)
HasTarget == \A a \in Actors : step[a] \in {"edit", "save"} => target[a] # 0

(* The inductive invariant.                                                *)
LiveInv == TypeOK /\ HasTarget /\ SoundInv /\ BlameInv /\ TurnInv

-----------------------------------------------------------------------------
(* The turn.                                                               *)

(* A step of LiveTurn is a step of the turn or leaves it alone.            *)
LEMMA StepStreams == [Next]_vars => [StreamNext]_streamVars
<1>. SUFFICES ASSUME [Next]_vars PROVE [StreamNext]_streamVars OBVIOUS
<1>1. CASE Provider \/ Reader \/ Handler
  BY <1>1 DEF Provider, Reader, Handler, StreamNext
<1>2. CASE Projects BY <1>2 DEF Projects, StreamNext
<1>3. ASSUME NEW ok \in BOOLEAN, Projected(ok) PROVE StreamNext
  BY <1>3 DEF Projected, StreamNext
<1>4. ASSUME NEW ok \in BOOLEAN, OtherReturns(ok) PROVE UNCHANGED streamVars
  BY <1>4 DEF OtherReturns
<1>5. ASSUME NEW a \in Actors, RefreshStep(a) PROVE UNCHANGED streamVars
  BY <1>5 DEF RefreshStep
<1>6. CASE OtherSaves \/ MainStatus \/ MainCleanup
  BY <1>6 DEF OtherSaves, MainStatus, MainCleanup, OtherBegins
<1>7. ASSUME NEW ok \in BOOLEAN, Accepts(ok) PROVE StreamNext
  BY <1>7 DEF Accepts, StreamNext
<1>8. ASSUME NEW ok \in BOOLEAN, OtherRecords(ok) PROVE UNCHANGED streamVars
  BY <1>8 DEF OtherRecords, OtherBegins
<1>9. CASE UNCHANGED vars BY <1>9 DEF vars
<1>. QED BY <1>1, <1>2, <1>3, <1>4, <1>5, <1>6, <1>7, <1>8, <1>9 DEF Next

(* With the control card and the other actor around it, the turn that      *)
(* Runner.run and deliverSessionResult make is the turn Stream describes.  *)
THEOREM ImplementsStream == Spec => StreamSpec
<1>1. Init => StreamInit BY DEF Init
<1>. QED BY <1>1, StepStreams, PTL DEF Spec, StreamSpec

(* However long the control card keeps the reader, the handler waits for   *)
(* it before it touches the session (Runner.run, upsertSessionHeaderCard). *)
THEOREM LiveOneAtATime == Spec => []HandlerHasTheSession
BY ImplementsStream, OneAtATime, PTL

(* Errors of saves, cards and messages in OnLine stop neither the reader   *)
(* nor the second pass from saying what the provider wrote.                *)
THEOREM LiveSaysEverything == Spec => []NothingWrittenIsLost
BY ImplementsStream, SaysEverything, PTL

(* Nor do they hide a question from the decision at the end of the turn.   *)
THEOREM LiveActsOnWhatItShows == Spec => []ShownIsActedOn
BY ImplementsStream, ActsOnWhatItShows, PTL

(* Whatever delays a call of the control card makes between the two passes *)
(* over the output, nothing is said twice that the deduper could know.     *)
THEOREM LiveShowsOnce == Spec => []ShownOnce
BY ImplementsStream, ShowsOnce, PTL

-----------------------------------------------------------------------------
(* What a step of LiveTurn does to the control card.                       *)
CardMoves ==
  \/ \E a \in Actors : \E s \in Sessions : Save(a, s) \/ Cleanup(a, s)
  \/ \E a \in Actors : Status(a) \/ Refreshes(a) \/ (\E ok \in BOOLEAN : Returns(a, ok))
  \/ (\E s \in Sessions : SaveQuietly(s)) \/ SaveQuietlyFails
  \/ UNCHANGED cardVars

LEMMA StepMovesCard == [Next]_vars => CardMoves
<1>. SUFFICES ASSUME [Next]_vars PROVE CardMoves OBVIOUS
<1>. "turn" \in Actors /\ "other" \in Actors BY ActorsOfATurn
<1>1. CASE Provider \/ Reader \/ Handler BY <1>1 DEF Provider, Reader, Handler, CardMoves
<1>2. CASE Projects BY <1>2, OwnIsASession DEF Projects, CardMoves
<1>3. ASSUME NEW ok \in BOOLEAN, Projected(ok) PROVE CardMoves
  BY <1>3 DEF Projected, CardMoves
<1>4. ASSUME NEW ok \in BOOLEAN, OtherReturns(ok) PROVE CardMoves
  BY <1>4 DEF OtherReturns, CardMoves
<1>5. ASSUME NEW a \in Actors, RefreshStep(a) PROVE CardMoves
  BY <1>5 DEF RefreshStep, CardMoves
<1>6. CASE OtherSaves \/ MainStatus \/ MainCleanup
  BY <1>6 DEF OtherSaves, MainStatus, MainCleanup, CardMoves
<1>7. ASSUME NEW ok \in BOOLEAN, Accepts(ok) \/ OtherRecords(ok) PROVE CardMoves
  BY <1>7, OwnIsASession DEF Accepts, OtherRecords, CardMoves
<1>8. CASE UNCHANGED vars BY <1>8 DEF vars, CardMoves
<1>. QED BY <1>1, <1>2, <1>3, <1>4, <1>5, <1>6, <1>7, <1>8 DEF Next

(* The types of the card, the text of a card and that of a flag apart.     *)
CardText == [Sessions -> Nat]
Steps == {"idle", "present", "list", "read", "edit", "send", "save", "done", "failed"}

CardTypes ==
  /\ records \in CardText
  /\ cards \in Seq(CardText) /\ cursor \in 0 .. Len(cards)
  /\ step \in [Actors -> Steps] /\ unread \in [Actors -> SUBSET Sessions]
  /\ text \in [Actors -> CardText] /\ target \in [Actors -> 0 .. Len(cards)]
  /\ since \in CardText /\ faults \in 0 .. MaxFaults

LEMMA CardTypesOf == CardTypeOK <=> CardTypes /\ sound \in BOOLEAN
BY Zenon DEF CardTypeOK, CardTypes, CardText, Steps

(* A text put in the place of a card, and a card added to the others.      *)
LEMMA CardsKept ==
  ASSUME CardTypes, NEW new \in CardText
  PROVE  /\ \A i \in 1 .. Len(cards) :
              /\ [cards EXCEPT ![i] = new] \in Seq(CardText)
              /\ Len([cards EXCEPT ![i] = new]) = Len(cards)
              /\ [cards EXCEPT ![i] = new][i] = new
         /\ Append(cards, new) \in Seq(CardText)
         /\ Len(Append(cards, new)) = Len(cards) + 1
         /\ Append(cards, new)[Len(cards) + 1] = new
<1>1. cards \in Seq(CardText) BY DEF CardTypes
<1>2. ASSUME NEW i \in 1 .. Len(cards)
      PROVE  /\ [cards EXCEPT ![i] = new] \in Seq(CardText)
             /\ Len([cards EXCEPT ![i] = new]) = Len(cards)
             /\ [cards EXCEPT ![i] = new][i] = new
  BY <1>1, <1>2, ExceptSeq
<1>. QED BY <1>1, <1>2

LEMMA InitCard == CardInit => CardTypeOK /\ HasTarget /\ SoundInv
<1>. SUFFICES ASSUME CardInit PROVE CardTypeOK /\ HasTarget /\ SoundInv OBVIOUS
<1>1. NoSession \in CardText /\ records \in CardText BY DEF CardInit, NoSession, CardText
<1>2. cards \in Seq(CardText) /\ cursor \in 0 .. Len(cards)
  <2>1. <<NoSession>> \in Seq(CardText) /\ Len(<<NoSession>>) = 1 BY <1>1
  <2>2. CASE cursor = 0 /\ cards = <<>> BY <2>2
  <2>3. CASE cursor = 1 /\ cards = <<NoSession>> BY <2>1, <2>3
  <2>. QED BY <2>2, <2>3 DEF CardInit
<1>3. 0 \in 0 .. Len(cards)
  <2>1. Len(cards) \in Nat BY <1>2
  <2>. QED BY <2>1
<1>4. CardTypes BY <1>1, <1>2, <1>3, MaxFaultsIsNatural DEF CardInit, CardTypes, Steps
<1>5. sound \in BOOLEAN BY DEF CardInit
<1>. QED BY <1>4, <1>5, CardTypesOf DEF CardInit, HasTarget, SoundInv

LEMMA FaultCounts ==
  ASSUME faults \in 0 .. MaxFaults, Fault \/ UNCHANGED faults
  PROVE  faults' \in 0 .. MaxFaults
BY MaxFaultsIsNatural DEF Fault

LEMMA StepCardTypes == CardTypes /\ CardTypeOK /\ HasTarget /\ CardMoves => CardTypes'
<1>. SUFFICES ASSUME CardTypes, CardTypeOK, HasTarget, CardMoves PROVE CardTypes' OBVIOUS
<1>. NoSession \in CardText BY DEF NoSession, CardText
<1>. USE MaxFaultsIsNatural DEF CardTypes, Steps
<1>1. ASSUME NEW a \in Actors, NEW s \in Sessions, Save(a, s) PROVE CardTypes'
  <2>1. records' \in CardText BY <1>1 DEF Save, CardText
  <2>2. step' \in [Actors -> Steps] BY <1>1 DEF Save, Begins, Goes
  <2>3. faults' \in 0 .. MaxFaults BY <1>1, FaultCounts DEF Save
  <2>. QED BY <1>1, <2>1, <2>2, <2>3 DEF Save, Begins
<1>2. ASSUME NEW a \in Actors, NEW s \in Sessions, Cleanup(a, s) PROVE CardTypes'
  <2>1. records' \in CardText BY <1>2 DEF Cleanup, CardText
  <2>. QED BY <1>2, <2>1 DEF Cleanup, actorVars
<1>3. ASSUME NEW a \in Actors, Status(a) PROVE CardTypes' BY <1>3 DEF Status, Begins, Goes
<1>4. ASSUME NEW a \in Actors, Refreshes(a) PROVE CardTypes'
  <2>1. CASE IfPresent(a) BY <2>1 DEF IfPresent, Goes
  <2>2. CASE ListSessions(a) BY <2>2 DEF ListSessions, Goes
  <2>3. CASE FindCard(a) BY <2>3 DEF FindCard, Goes
  <2>4. ASSUME NEW s \in Sessions, ReadRecord(a, s) PROVE CardTypes'
    <3>1. [text[a] EXCEPT ![s] = records[s]] \in CardText BY DEF CardText
    <3>2. text' = text \/ text' = [text EXCEPT ![a] = [text[a] EXCEPT ![s] = records[s]]]
      BY <2>4 DEF ReadRecord
    <3>3. text' \in [Actors -> CardText] BY <3>1, <3>2
    <3>. QED BY <2>4, <3>3 DEF ReadRecord, Goes
  <2>5. CASE EditCard(a) \/ EditFails(a)
    <3>1. target[a] \in 1 .. Len(cards) /\ text[a] \in CardText
      BY <2>5 DEF HasTarget, EditCard, EditFails
    <3>2. cards' \in Seq(CardText) /\ Len(cards') = Len(cards)
      <4>1. cards' = cards \/ cards' = [cards EXCEPT ![target[a]] = text[a]]
        BY <2>5 DEF EditCard, EditFails
      <4>2. [cards EXCEPT ![target[a]] = text[a]] \in Seq(CardText)
            /\ Len([cards EXCEPT ![target[a]] = text[a]]) = Len(cards)
        BY <3>1, CardsKept
      <4>. QED BY <4>1, <4>2
    <3>3. step' \in [Actors -> Steps] BY <2>5 DEF EditCard, EditFails, Goes
    <3>4. faults' \in 0 .. MaxFaults BY <2>5, FaultCounts DEF EditCard, EditFails
    <3>5. cursor \in 0 .. Len(cards') /\ target \in [Actors -> 0 .. Len(cards')] BY <3>2
    <3>. QED BY <2>5, <3>2, <3>3, <3>4, <3>5 DEF EditCard, EditFails
  <2>6. CASE SendCard(a) \/ SendFails(a)
    <3>1. text[a] \in CardText /\ Len(cards) \in Nat OBVIOUS
    <3>2. cards' \in Seq(CardText) /\ Len(cards') \in Nat /\ Len(cards) <= Len(cards')
      <4>1. cards' = cards \/ cards' = Append(cards, text[a]) BY <2>6 DEF SendCard, SendFails
      <4>2. Append(cards, text[a]) \in Seq(CardText) /\ Len(Append(cards, text[a])) = Len(cards) + 1
        BY <3>1, CardsKept
      <4>3. CASE cards' = cards BY <3>1, <4>3
      <4>4. CASE cards' = Append(cards, text[a]) BY <3>1, <4>2, <4>4
      <4>. QED BY <4>1, <4>3, <4>4
    <3>3. target' \in [Actors -> 0 .. Len(cards')] /\ cursor \in 0 .. Len(cards')
      BY <2>6, <3>1, <3>2 DEF SendCard, SendFails
    <3>4. step' \in [Actors -> Steps] BY <2>6 DEF SendCard, SendFails, Goes
    <3>5. faults' \in 0 .. MaxFaults BY <2>6, FaultCounts DEF SendCard, SendFails
    <3>. QED BY <2>6, <3>2, <3>3, <3>4, <3>5 DEF SendCard, SendFails
  <2>7. CASE SaveCursor(a) \/ SaveCursorFails(a)
    BY <2>7 DEF SaveCursor, SaveCursorFails, Goes, Fault
  <2>. QED BY <1>4, <2>1, <2>2, <2>3, <2>4, <2>5, <2>6, <2>7 DEF Refreshes
<1>5. ASSUME NEW a \in Actors, NEW ok \in BOOLEAN, Returns(a, ok) PROVE CardTypes'
  <2>1. 0 \in 0 .. Len(cards) OBVIOUS
  <2>2. faults' \in 0 .. MaxFaults BY <1>5 DEF Returns, Fault
  <2>. QED BY <1>5, <2>1, <2>2 DEF Returns, Goes
<1>6. ASSUME NEW s \in Sessions, SaveQuietly(s) PROVE CardTypes'
  <2>1. records' \in CardText BY <1>6 DEF SaveQuietly, CardText
  <2>. QED BY <1>6, <2>1 DEF SaveQuietly, actorVars
<1>7. CASE SaveQuietlyFails
  <2>1. faults' \in 0 .. MaxFaults BY <1>7, FaultCounts DEF SaveQuietlyFails
  <2>. QED BY <1>7, <2>1 DEF SaveQuietlyFails, actorVars
<1>8. CASE UNCHANGED cardVars BY <1>8 DEF cardVars, actorVars
<1>. QED BY <1>1, <1>2, <1>3, <1>4, <1>5, <1>6, <1>7, <1>8 DEF CardMoves

LEMMA StepCardTypeOK == CardTypeOK /\ HasTarget /\ CardMoves => CardTypeOK'
<1>. SUFFICES ASSUME CardTypeOK, HasTarget, CardMoves PROVE CardTypeOK' OBVIOUS
<1>1. CardTypes' BY CardTypesOf, StepCardTypes
<1>2. sound' \in BOOLEAN
  <2>1. sound' \in {sound, FALSE, TRUE}
    BY Zenon DEF CardMoves, Save, Begins, Cleanup, Status, Refreshes, IfPresent, ListSessions,
      FindCard, ReadRecord, EditCard, EditFails, SendCard, SendFails, SaveCursor, SaveCursorFails,
      Returns, SaveQuietly, SaveQuietlyFails, cardVars
  <2>. QED BY Zenon, <2>1 DEF CardTypeOK
<1>3. (CardTypeOK <=> CardTypes /\ sound \in BOOLEAN)' BY CardTypesOf, PTL
<1>. QED BY Zenon, <1>1, <1>2, <1>3

LEMMA StepHasTarget == CardTypes /\ HasTarget /\ CardMoves => HasTarget'
<1>. SUFFICES ASSUME CardTypes, HasTarget, CardMoves PROVE HasTarget' OBVIOUS
<1>. USE DEF CardTypes, HasTarget
<1>1. ASSUME NEW a \in Actors, NEW s \in Sessions, Save(a, s) \/ Cleanup(a, s) PROVE HasTarget'
  BY <1>1 DEF Save, Cleanup, Begins, Goes, actorVars
<1>2. ASSUME NEW a \in Actors, Status(a) PROVE HasTarget' BY <1>2 DEF Status, Begins, Goes
<1>3. ASSUME NEW a \in Actors, Refreshes(a) PROVE HasTarget'
  <2>1. CASE IfPresent(a) \/ ListSessions(a) \/ FindCard(a)
    BY <2>1 DEF IfPresent, ListSessions, FindCard, Goes
  <2>2. ASSUME NEW s \in Sessions, ReadRecord(a, s) PROVE HasTarget' BY <2>2 DEF ReadRecord, Goes
  <2>3. CASE EditCard(a) \/ EditFails(a) BY <2>3 DEF EditCard, EditFails, Goes
  <2>4. CASE SendCard(a)
    <3>1. Len(cards') # 0 BY <2>4, CardsKept DEF SendCard
    <3>. QED BY <2>4, <3>1 DEF SendCard, Goes
  <2>5. CASE SendFails(a) \/ SaveCursor(a) \/ SaveCursorFails(a)
    BY <2>5 DEF SendFails, SaveCursor, SaveCursorFails, Goes
  <2>. QED BY <1>3, <2>1, <2>2, <2>3, <2>4, <2>5 DEF Refreshes
<1>4. ASSUME NEW a \in Actors, NEW ok \in BOOLEAN, Returns(a, ok) PROVE HasTarget'
  BY <1>4 DEF Returns, Goes
<1>5. CASE (\E s \in Sessions : SaveQuietly(s)) \/ SaveQuietlyFails
  BY <1>5 DEF SaveQuietly, SaveQuietlyFails, actorVars
<1>6. CASE UNCHANGED cardVars BY <1>6 DEF cardVars, actorVars
<1>. QED BY <1>1, <1>2, <1>3, <1>4, <1>5, <1>6 DEF CardMoves

(* A refresh that begins while all are idle is alone at first; one that    *)
(* begins beside another ends the soundness of both.                       *)
LEMMA BeginsSound ==
  ASSUME CardTypes, records' \in CardText,
         NEW a \in Actors, NEW first \in {"present", "list"}, Begins(a, first)
  PROVE  SoundInv'
<1>1. \A s \in Sessions : since'[s] <= records'[s] BY DEF CardText, Begins
<1>. QED BY <1>1 DEF CardTypes, Begins, Goes, Idle, SoundInv, Working, Achieved

LEMMA StepSoundInv == CardTypes /\ HasTarget /\ SoundInv /\ CardMoves => SoundInv'
<1>. SUFFICES ASSUME CardTypes, HasTarget, SoundInv, CardMoves PROVE SoundInv' OBVIOUS
<1>. USE DEF CardTypes, SoundInv, Idle, Working, Achieved, Shows, SinceThen, CardShows
<1>1. ASSUME NEW a \in Actors, NEW s \in Sessions, Save(a, s) PROVE SoundInv'
  <2>1. records' \in CardText BY <1>1 DEF Save, CardText
  <2>. QED BY <1>1, <2>1, BeginsSound DEF Save
<1>2. ASSUME NEW a \in Actors, NEW s \in Sessions, Cleanup(a, s) PROVE SoundInv'
  BY <1>2 DEF Cleanup, actorVars
<1>3. ASSUME NEW a \in Actors, Status(a) PROVE SoundInv' BY <1>3, BeginsSound DEF Status
<1>4. ASSUME NEW a \in Actors, Refreshes(a) PROVE SoundInv'
  <2>1. CASE IfPresent(a) BY <2>1 DEF IfPresent, Goes
  <2>2. CASE ListSessions(a) BY <2>2 DEF ListSessions, Goes
  <2>3. CASE FindCard(a) BY <2>3 DEF FindCard, Goes
  <2>4. ASSUME NEW s \in Sessions, ReadRecord(a, s) PROVE SoundInv'
    <3>1. CASE records[s] = 0 BY <2>4, <3>1 DEF ReadRecord
    <3>2. CASE records[s] # 0
      <4>1. text' = [text EXCEPT ![a] = [text[a] EXCEPT ![s] = records[s]]]
            /\ unread' = [unread EXCEPT ![a] = unread[a] \ {s}]
            /\ UNCHANGED <<step, sound, records, since, cursor, cards, target>> /\ step[a] = "read"
        BY <2>4, <3>2 DEF ReadRecord
      <4>2. \A r \in Sessions : text'[a][r] = IF r = s THEN records[s] ELSE text[a][r]
        BY <4>1 DEF CardText
      <4>3. sound => records[s] \in since[s] .. records[s] BY <3>2 DEF CardText
      <4>. QED BY <4>1, <4>2, <4>3
    <3>. QED BY <3>1, <3>2
  <2>5. CASE EditCard(a)
    <3>1. target[a] \in 1 .. Len(cards) /\ text[a] \in CardText
      BY <2>5 DEF HasTarget, EditCard
    <3>2. cards'[target[a]] = text[a] BY <2>5, <3>1, CardsKept DEF EditCard
    <3>. QED BY <2>5, <3>2 DEF EditCard, Goes
  <2>6. CASE EditFails(a) BY <2>6 DEF EditFails, Goes
  <2>7. CASE SendCard(a)
    <3>1. cards'[target'[a]] = text[a]
      <4>1. text[a] \in CardText /\ Len(cards) \in Nat OBVIOUS
      <4>2. Len(cards') = Len(cards) + 1 /\ cards'[Len(cards) + 1] = text[a]
        BY <2>7, <4>1, CardsKept DEF SendCard
      <4>3. target'[a] = Len(cards') BY <2>7 DEF SendCard
      <4>. QED BY <4>2, <4>3
    <3>. QED BY <2>7, <3>1 DEF SendCard, Goes
  <2>8. CASE SaveCursor(a) BY <2>8 DEF SaveCursor, Goes
  <2>9. CASE SendFails(a) \/ SaveCursorFails(a) BY <2>9 DEF SendFails, SaveCursorFails
  <2>. QED BY <1>4, <2>1, <2>2, <2>3, <2>4, <2>5, <2>6, <2>7, <2>8, <2>9 DEF Refreshes
<1>5. ASSUME NEW a \in Actors, NEW ok \in BOOLEAN, Returns(a, ok) PROVE SoundInv'
  BY <1>5 DEF Returns, Goes
<1>6. ASSUME NEW s \in Sessions, SaveQuietly(s) PROVE SoundInv'
  <2>1. \A r \in Sessions :
          records'[r] # 0 => records[r] # 0 /\ \A n \in SinceThen(r) : n \in since'[r] .. records'[r]
    BY <1>6 DEF SaveQuietly, SinceThen, CardText
  <2>2. \A r \in Sessions : records'[r] # 0 /\ since[r] <= records[r] => since'[r] <= records'[r]
    BY <1>6 DEF SaveQuietly, CardText
  <2>. QED BY <1>6, <2>1, <2>2 DEF SaveQuietly, actorVars
<1>7. CASE SaveQuietlyFails BY <1>7 DEF SaveQuietlyFails, actorVars
<1>8. CASE UNCHANGED cardVars BY <1>8 DEF cardVars, actorVars
<1>. QED BY <1>1, <1>2, <1>3, <1>4, <1>5, <1>6, <1>7, <1>8 DEF CardMoves

-----------------------------------------------------------------------------
(* The turn among the others.                                              *)
LEMMA StepLiveTypes ==
  ASSUME up \in BOOLEAN, begun \in 0 .. MaxOther, cleaned \in BOOLEAN, [Next]_vars
  PROVE  up' \in BOOLEAN /\ begun' \in 0 .. MaxOther /\ cleaned' \in BOOLEAN
<1>1. (up' = up \/ up' = FALSE \/ up' = TRUE) /\ (cleaned' = cleaned \/ cleaned' = TRUE)
  BY Zenon DEF Next, Provider, Reader, Handler, Projects, Projected, RefreshStep, OtherReturns,
    OtherBegins, OtherSaves, OtherRecords, Accepts, MainStatus, MainCleanup, liveVars, vars
<1>2. begun' = begun \/ (begun < MaxOther /\ begun' = begun + 1)
  BY DEF Next, Provider, Reader, Handler, Projects, Projected, RefreshStep, OtherReturns,
    OtherBegins, OtherSaves, OtherRecords, Accepts, MainStatus, MainCleanup, liveVars, vars
<1>3. up' \in BOOLEAN /\ cleaned' \in BOOLEAN BY Zenon, <1>1
<1>4. begun' \in 0 .. MaxOther BY <1>2, MaxOtherIsNatural
<1>. QED BY <1>3, <1>4

LEMMA StepLiveTypeOK == TypeOK /\ HasTarget /\ [Next]_vars => TypeOK'
<1>. SUFFICES ASSUME TypeOK, HasTarget, [Next]_vars PROVE TypeOK' OBVIOUS
<1>1. StreamTypeOK' BY StepStreams, StepTypeOK DEF TypeOK
<1>2. CardTypeOK' BY StepMovesCard, StepCardTypeOK DEF TypeOK
<1>. QED BY <1>1, <1>2, StepLiveTypes DEF TypeOK

(* Blame stays: faults are counted and cleaned is kept.                    *)
LEMMA BlameStays == TypeOK /\ Blame /\ [Next]_vars => Blame'
<1>. SUFFICES ASSUME TypeOK, Blame, [Next]_vars PROVE Blame' OBVIOUS
<1>1. faults' = faults \/ faults' = faults + 1
  <2>1. CardMoves BY StepMovesCard
  <2>. QED BY <2>1 DEF CardMoves, Save, Begins, Cleanup, Status, Refreshes, IfPresent, ListSessions,
    FindCard, ReadRecord, EditCard, EditFails, SendCard, SendFails, SaveCursor, SaveCursorFails,
    Returns, SaveQuietly, SaveQuietlyFails, Fault, cardVars
<1>2. cleaned' = cleaned \/ cleaned' = TRUE
  BY Zenon DEF Next, Provider, Reader, Handler, Projects, Projected, RefreshStep, OtherReturns,
    OtherBegins, OtherSaves, OtherRecords, Accepts, MainStatus, MainCleanup, liveVars, vars
<1>. QED BY <1>1, <1>2 DEF Blame, TypeOK, CardTypeOK

(* What is listed and not read yet is there, or was cleaned up.            *)
Listed == \A a \in Actors : \A s \in unread[a] : records[s] # 0 \/ cleaned

LEMMA StepListed == TypeOK /\ Listed /\ [Next]_vars => Listed'
<1>. SUFFICES ASSUME TypeOK, Listed, [Next]_vars PROVE Listed' OBVIOUS
<1>. CardTypes BY CardTypesOf DEF TypeOK
<1>1. cleaned => cleaned'
  BY Zenon DEF Next, Provider, Reader, Handler, Projects, Projected, RefreshStep, OtherReturns,
    OtherBegins, OtherSaves, OtherRecords, Accepts, MainStatus, MainCleanup, liveVars, vars
<1>2. CASE MainCleanup BY <1>2 DEF MainCleanup, Listed
<1>3. CASE ~MainCleanup
  <2>1. \/ \E a \in Actors : \E s \in Sessions : Save(a, s)
        \/ \E a \in Actors : Status(a) \/ Refreshes(a) \/ (\E ok \in BOOLEAN : Returns(a, ok))
        \/ (\E s \in Sessions : SaveQuietly(s)) \/ SaveQuietlyFails
        \/ UNCHANGED cardVars
    <3>. "turn" \in Actors /\ "other" \in Actors BY ActorsOfATurn
    <3>. QED BY Zenon, <1>3, OwnIsASession DEF Next, Provider, Reader, Handler, Projects, Projected,
           RefreshStep, OtherReturns, OtherSaves, OtherRecords, Accepts, MainStatus, vars
  <2>2. ASSUME NEW a \in Actors, NEW s \in Sessions, Save(a, s) PROVE Listed'
    <3>1. \A r \in Sessions : records[r] # 0 => records'[r] # 0
      BY <2>2 DEF Save, CardTypes, CardText
    <3>. QED BY <1>1, <2>2, <3>1 DEF Save, Begins, Listed, CardTypes
  <2>3. ASSUME NEW a \in Actors, Status(a) \/ (\E ok \in BOOLEAN : Returns(a, ok)) PROVE Listed'
    BY <1>1, <2>3 DEF Status, Begins, Returns, Listed
  <2>4. ASSUME NEW a \in Actors, Refreshes(a) PROVE Listed'
    <3>1. records' = records
      BY <2>4 DEF Refreshes, IfPresent, ListSessions, FindCard, ReadRecord, EditCard, EditFails,
        SendCard, SendFails, SaveCursor, SaveCursorFails
    <3>2. \A b \in Actors : \A s \in unread'[b] : s \in unread[b] \/ records[s] # 0
      BY <2>4 DEF Refreshes, IfPresent, ListSessions, FindCard, ReadRecord, EditCard, EditFails,
        SendCard, SendFails, SaveCursor, SaveCursorFails, CardTypes
    <3>. QED BY <1>1, <3>1, <3>2 DEF Listed
  <2>5. ASSUME NEW s \in Sessions, SaveQuietly(s) PROVE Listed'
    <3>1. \A r \in Sessions : records[r] # 0 => records'[r] # 0
      BY <2>5 DEF SaveQuietly, CardTypes, CardText
    <3>. QED BY <1>1, <2>5, <3>1 DEF SaveQuietly, actorVars, Listed, CardTypes
  <2>6. CASE SaveQuietlyFails \/ UNCHANGED cardVars
    BY <1>1, <2>6 DEF SaveQuietlyFails, cardVars, actorVars, Listed
  <2>. QED BY <2>1, <2>2, <2>3, <2>4, <2>5, <2>6
<1>. QED BY <1>2, <1>3

(* A refresh fails for a fault or a record that went away.                 *)
FailedIsBlamed == \A a \in Actors : step[a] = "failed" => Blame

LEMMA FaultIsBlamed == TypeOK /\ Fault => Blame'
BY DEF TypeOK, CardTypeOK, Fault, Blame

LEMMA StepFailedIsBlamed ==
  TypeOK /\ Listed /\ FailedIsBlamed /\ [Next]_vars => FailedIsBlamed'
<1>. SUFFICES ASSUME TypeOK, Listed, FailedIsBlamed, [Next]_vars,
                     NEW b \in Actors, step'[b] = "failed", step[b] # "failed"
              PROVE  Blame'
  BY BlameStays DEF FailedIsBlamed
<1>. CardTypes BY CardTypesOf DEF TypeOK
<1>1. CardMoves BY StepMovesCard
<1>2. ASSUME NEW a \in Actors, NEW s \in Sessions, Save(a, s) PROVE Blame'
  <2>1. Fault BY <1>2 DEF Save, Begins, Goes, CardTypes
  <2>. QED BY <2>1, FaultIsBlamed
<1>3. ASSUME NEW a \in Actors, NEW s \in Sessions, Cleanup(a, s) PROVE FALSE
  BY <1>3 DEF Cleanup, actorVars
<1>4. ASSUME NEW a \in Actors, Status(a) \/ (\E ok \in BOOLEAN : Returns(a, ok)) PROVE FALSE
  BY <1>4 DEF Status, Begins, Returns, Goes, CardTypes
<1>5. ASSUME NEW a \in Actors, Refreshes(a) PROVE Blame'
  <2>1. \/ SendFails(a) \/ SaveCursorFails(a)
        \/ \E s \in Sessions : ReadRecord(a, s) /\ records[s] = 0
    BY <1>5 DEF Refreshes, IfPresent, ListSessions, FindCard, ReadRecord, EditCard, EditFails,
      SendCard, SaveCursor, Goes, CardTypes
  <2>2. CASE SendFails(a) \/ SaveCursorFails(a)
    BY <2>2, FaultIsBlamed DEF SendFails, SaveCursorFails
  <2>3. ASSUME NEW s \in Sessions, ReadRecord(a, s), records[s] = 0 PROVE Blame'
    <3>1. cleaned BY <2>3 DEF ReadRecord, Listed
    <3>. QED BY <3>1, BlameStays DEF Blame
  <2>. QED BY <2>1, <2>2, <2>3
<1>6. CASE (\E s \in Sessions : SaveQuietly(s)) \/ SaveQuietlyFails \/ UNCHANGED cardVars
  BY <1>6 DEF SaveQuietly, SaveQuietlyFails, cardVars, actorVars
<1>. QED BY <1>1, <1>2, <1>3, <1>4, <1>5, <1>6 DEF CardMoves

(* An error of a call inside the turn is one of its refresh, or a fault.   *)
LEMMA TurnErrorIsBlamed ==
  TypeOK /\ FailedIsBlamed /\ [Next]_vars /\ Returns("turn", FALSE) => Blame'
<1>. SUFFICES ASSUME TypeOK, FailedIsBlamed, [Next]_vars, Returns("turn", FALSE) PROVE Blame'
  OBVIOUS
<1>1. CASE Fault BY <1>1, FaultIsBlamed
<1>2. CASE step["turn"] = "failed" BY <1>2, BlameStays, ActorsOfATurn DEF FailedIsBlamed
<1>. QED BY <1>1, <1>2 DEF Returns

LEMMA StepStreamErr ==
  TypeOK /\ FailedIsBlamed /\ (streamErr => Blame) /\ [Next]_vars => (streamErr => Blame)'
<1>. SUFFICES ASSUME TypeOK, FailedIsBlamed, streamErr => Blame, [Next]_vars, streamErr'
              PROVE  Blame'
  OBVIOUS
<1>1. CASE streamErr BY <1>1, BlameStays
<1>2. CASE ~streamErr
  <2>1. ~(streamErr' = streamErr) BY Zenon, <1>2
  <2>2. \E ok \in BOOLEAN : LineShown(ok) /\ Returns("turn", ok)
    BY Zenon, <2>1 DEF Next, Provider, ProviderNext, Writes, Exits, Reader, ReaderNext, Fetch,
      PassOver, EndOfOutput, Handler, HandlerNext, WaitReturns, Joined, GraceExpires, TurnFails,
      TurnAccepted, Decide, SkipResult, Projects, Showing, ShowLine, ShowResult, Projected, Shown,
      ResultShown, Accepts, OtherReturns, RefreshStep, OtherBegins, OtherSaves, OtherRecords,
      MainStatus, MainCleanup,
      reading, streamVars, vars
  <2>3. Returns("turn", FALSE)
    <3>1. PICK ok \in BOOLEAN : LineShown(ok) /\ Returns("turn", ok) BY <2>2
    <3>2. ok = FALSE BY Zenon, <1>2, <3>1 DEF LineShown
    <3>. QED BY <3>1, <3>2
  <2>. QED BY <2>3, TurnErrorIsBlamed
<1>. QED BY <1>1, <1>2

(* A turn that is over stays as it ended.                                  *)
LEMMA OverStays ==
  TurnInv /\ turn = "over" /\ [Next]_vars
    => UNCHANGED <<outcome, accepted, late, taken>>
<1>. SUFFICES ASSUME TurnInv, turn = "over", [StreamNext]_streamVars
              PROVE  UNCHANGED <<outcome, accepted, late, taken>>
  BY StepStreams
<1>. QED
  BY DEF TurnInv, HandlerHasTheSession, StreamNext, ProviderNext, Writes, Exits, ReaderNext, Fetch,
    PassOver, Take, EndOfOutput, HandlerNext, WaitReturns, Joined, GraceExpires, TurnFails,
    TurnAccepted, Decide, SkipResult, Showing, ShowLine, ShowResult, Shown, LineShown, ResultShown,
    streamVars, provider, reading, handling

LEMMA StepHealthy ==
  TypeOK /\ TurnInv /\ BlameInv /\ [Next]_vars => HealthyTurnSucceeds'
<1>. SUFFICES ASSUME TypeOK, TurnInv, BlameInv, [Next]_vars, outcome' \in {"failed", "broken"},
                     ~Blame', accepted'
              PROVE  late' /\ taken' = 0
  BY DEF HealthyTurnSucceeds, Blame
<1>1. ~Blame BY BlameStays
<1>2. CASE turn = "over"
  BY <1>1, <1>2, OverStays DEF BlameInv, HealthyTurnSucceeds, Blame
<1>3. CASE turn # "over"
  <2>1. outcome = "none" BY <1>3 DEF TurnInv
  <2>2. TurnFails \/ SaveQuietlyFails \/ (ResultShown(FALSE) /\ Returns("turn", FALSE))
    <3>1. outcome' \notin {"none", "acted", "quiet"} OBVIOUS
    <3>. QED
      BY Zenon, <2>1, <3>1 DEF Next, Provider, ProviderNext, Writes, Exits, Reader, ReaderNext, Fetch,
        PassOver, EndOfOutput, Handler, HandlerNext, WaitReturns, Joined, GraceExpires,
        TurnAccepted, Decide, Ends, SkipResult, Projects, Showing, ShowLine, ShowResult, Projected,
        Shown, LineShown, ResultShown, Accepts, OtherReturns, RefreshStep, OtherBegins, OtherSaves,
        OtherRecords, MainStatus, MainCleanup, handling, streamVars, vars
  <2>3. TurnFails
    <3>1. FailedIsBlamed BY DEF BlameInv, FailedIsBlamed
    <3>2. ~SaveQuietlyFails BY FaultIsBlamed DEF SaveQuietlyFails
    <3>. QED BY <2>2, <3>1, <3>2, TurnErrorIsBlamed
  <2>4. ~streamErr BY <1>1 DEF BlameInv
  <2>. QED BY <2>3, <2>4 DEF TurnFails, MayLackThread, reading
<1>. QED BY <1>2, <1>3

LEMMA StepBlameInv == TypeOK /\ TurnInv /\ BlameInv /\ [Next]_vars => BlameInv'
<1>. SUFFICES ASSUME TypeOK, TurnInv, BlameInv, [Next]_vars PROVE BlameInv' OBVIOUS
<1>1. Listed /\ FailedIsBlamed /\ (streamErr => Blame)
  BY DEF BlameInv, Listed, FailedIsBlamed
<1>2. Listed' /\ FailedIsBlamed' /\ (streamErr => Blame)'
  BY <1>1, StepListed, StepFailedIsBlamed, StepStreamErr
<1>. QED BY <1>2, StepHealthy DEF BlameInv, Listed, FailedIsBlamed

-----------------------------------------------------------------------------
(* The theorems about the control card and its errors.                     *)
LEMMA InitLiveInv == Init => LiveInv
<1>. SUFFICES ASSUME Init PROVE LiveInv OBVIOUS
<1>1. TypeOK
  <2>1. StreamTypeOK /\ CardTypeOK BY InitTypeOK, InitCard DEF Init
  <2>2. up = TRUE /\ cleaned = FALSE /\ begun \in 0 .. MaxOther BY MaxOtherIsNatural DEF Init
  <2>. QED BY Zenon, <2>1, <2>2 DEF TypeOK
<1>2. HasTarget /\ SoundInv BY InitCard DEF Init
<1>3. TurnInv BY DEF Init, StreamInit, TurnInv, HandlerHasTheSession
<1>4. BlameInv BY DEF Init, StreamInit, CardInit, BlameInv, HealthyTurnSucceeds
<1>. QED BY <1>1, <1>2, <1>3, <1>4 DEF LiveInv

LEMMA StepLiveInv == LiveInv /\ [Next]_vars => LiveInv'
<1>. SUFFICES ASSUME LiveInv, [Next]_vars PROVE LiveInv' OBVIOUS
<1>1. CardTypes /\ CardTypeOK BY CardTypesOf DEF LiveInv, TypeOK
<1>2. TypeOK' BY StepLiveTypeOK DEF LiveInv
<1>3. HasTarget' /\ SoundInv'
  BY <1>1, StepMovesCard, StepHasTarget, StepSoundInv DEF LiveInv
<1>4. BlameInv' BY StepBlameInv DEF LiveInv
<1>5. TurnInv' BY StepStreams, StepTurnInv DEF LiveInv
<1>. QED BY <1>2, <1>3, <1>4, <1>5 DEF LiveInv

(* The invariant of the card and of what is to blame for a failed turn     *)
(* holds whatever two actors do to the sessions and the card               *)
(* (refreshGeneralControlCardResult).                                      *)
THEOREM LiveInvariance == Spec => []LiveInv
<1>. QED BY InitLiveInv, StepLiveInv, PTL DEF Spec

(* Types, and that the cursor file and the targets name cards that were    *)
(* sent, for any number of sessions and faults.                            *)
THEOREM LiveTypeCorrect == Spec => []TypeOK
<1>1. LiveInv => TypeOK BY DEF LiveInv
<1>. QED BY <1>1, LiveInvariance, PTL

(* Refreshes that did not overlap leave the card with every session as it  *)
(* was on disk when the last one began or later, also when an edit failed  *)
(* and a new card was sent in its place, and when a record was cleaned up  *)
(* meanwhile.  A turn's run saved since, without a refresh, may not show   *)
(* (refreshGeneralControlCardResult, SaveQuietly).                         *)
THEOREM CardStaysCurrent == Spec => []CardIsCurrent
<1>1. LiveInv => CardIsCurrent BY DEF LiveInv, SoundInv, CardShows, Shows, SinceThen, CardIsCurrent
<1>. QED BY <1>1, LiveInvariance, PTL

(* A turn the provider has done well fails only for a call or a save that  *)
(* failed, a record cleaned up under a refresh, or the 100 ms before the   *)
(* first line; never because another actor was at the card (Runner.run,    *)
(* finishStart, refreshGeneralControlCardIfPresent).                       *)
THEOREM HealthyTurnsSucceed == Spec => []HealthyTurnSucceeds
<1>1. LiveInv => HealthyTurnSucceeds BY DEF LiveInv, BlameInv
<1>. QED BY <1>1, LiveInvariance, PTL
=============================================================================
