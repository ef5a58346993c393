------------------------ MODULE SessionHeader_proofs ------------------------
(***************************************************************************)
(* A session has one header card: for any number of runs and of failures.  *)
(* The card is sent by the launch, and until its id is saved nobody else   *)
(* knows the session well enough to send another: the start goroutine is   *)
(* not there yet, and messages find a run that is still active.            *)
(*                                                                         *)
(* And what the title, the header card and the control card show is true   *)
(* of a session that rests, as far as one actor at a time worked on it:    *)
(* each place of a redraw has shown a part of the actor's copy, and        *)
(* nothing that happens between two redraws takes a part back.             *)
(***************************************************************************)
EXTENDS SessionHeader, TLAPS

(* Main is on its way from the session's creation to its header card.      *)
Creating == at["main"] \in {"title", "saveTitle", "header"} /\ ~copy["main"].card

(* Everybody who works on the session, but for its creator, has a copy     *)
(* that knows the header card.                                             *)
CopiesKnow ==
  /\ at["start"] # "idle" => copy["start"].card
  /\ at["main"] # "idle" => copy["main"].card \/ Creating

(* No header card is sent before the creator has come to it.               *)
NotYetSent ==
  /\ record = NoRecord \/ Creating => headers = 0
  /\ record = NoRecord => \A a \in Actors : at[a] = "idle"
  /\ Creating => /\ then["main"] = "launched" /\ record # NoRecord
                 /\ copy["main"].run = 1 /\ ~record.card

(* A record that does not know its card is one of the launch: its run is   *)
(* the first, which nothing but the goroutine of its start would end.      *)
UnknownIsUnused ==
  record # NoRecord /\ ~record.card =>
    /\ record.run = 1 /\ runs[1] = "active"
    /\ at["start"] = "idle"
    /\ at["main"] \in {"idle", "saveHeader"} \/ Creating
    /\ at["main"] # "idle" => then["main"] = "launched"

(* The inductive invariant.                                                *)
HeaderInv == TypeOK /\ CopiesKnow /\ NotYetSent /\ UnknownIsUnused /\ OneHeader

USE MaxRunsIsPositive, MaxFaultsIsNatural
USE DEF vars, config, disk, telegram, turnVars, history, Goes, Sets, Actors, RunIds

-----------------------------------------------------------------------------
(* What is computed of moods and shown of them.                            *)
LEMMA DecidedType ==
  ASSUME NEW m \in Moods, NEW support \in SupportStates
  PROVE  Decided(m, support) \in Moods
BY DEF Decided, Moods, SupportStates

LEMMA AppliedType ==
  ASSUME NEW m \in Moods, NEW kind \in Kinds, NEW third \in BOOLEAN
  PROVE  Applied(m, kind, third) \in Moods
BY DEF Applied, Moods, Kinds

LEMMA ProjectedType ==
  ASSUME NEW m \in Moods, NEW kind \in Kinds, NEW third \in BOOLEAN
  PROVE  Projected(m, kind, third) \in Moods
<1>1. Applied(m, kind, third) \in Moods BY AppliedType
<1>2. \A s \in {"escalated", "idle", "ask_human"} : Decided(Applied(m, kind, third), s) \in Moods
  BY <1>1, DecidedType DEF SupportStates
<1>. QED BY <1>1, <1>2 DEF Projected

LEMMA FailedMoodType ==
  ASSUME snap \in Moods
  PROVE  FailedMood \in Moods
<1>1. [snap EXCEPT !.failed = TRUE, !.blocker = TRUE] \in Moods BY DEF Moods
<1>. QED BY <1>1, DecidedType DEF FailedMood, SupportStates

LEMMA ShownTypes ==
  ASSUME NEW m \in Moods, NEW run
  PROVE  /\ Icon(m, run) \in Icons
         /\ Active(m, run) \in BOOLEAN
         /\ Card(m, run) \in [state : {"none", "failed", "idle", "running"},
                              support : SupportStates, human : BOOLEAN]
<1>1. Icon(m, run) \in Icons BY DEF Icon, Icons, Human, Moods
<1>2. Active(m, run) \in BOOLEAN BY DEF Active, Human, Moods
<1>3. Card(m, run) \in [state : {"none", "failed", "idle", "running"},
                        support : SupportStates, human : BOOLEAN]
  BY DEF Card, Label, Human, Moods
<1>. QED BY <1>1, <1>2, <1>3

LEMMA CopyTypes ==
  ASSUME TypeOK, NEW a \in Actors
  PROVE  /\ copy[a] \in Records /\ copy[a].mood \in Moods /\ loaded[a] \in Moods
         /\ \A m \in Moods : Becomes(a, m) \in Records /\ Becomes(a, m).card = copy[a].card
BY DEF TypeOK, Records, Becomes

LEMMA NewTypes == NewMood \in Moods /\ NoRecord \in Records
<1>1. NewMood \in Moods BY DEF NewMood, Moods, SupportStates
<1>. QED BY <1>1 DEF NoRecord, Records, Icons
-----------------------------------------------------------------------------
(* Types.                                                                  *)
LEMMA InitTypeOK == Init => TypeOK
<1>. SUFFICES ASSUME Init PROVE TypeOK OBVIOUS
<1>. USE NewTypes DEF Init
<1>1. /\ policy \in BOOLEAN /\ provider \in {"codex", "claude"}
      /\ runs \in [RunIds -> {"none", "active", "exited", "failed"}]
      /\ snap \in Moods /\ record \in Records
  OBVIOUS
<1>2. title \in Icons /\ headers \in Nat /\ listed \in BOOLEAN BY DEF Icons
<1>3. header \in [state : {"none", "failed", "idle", "running"}, support : SupportStates,
                 human : BOOLEAN]
  BY DEF NoCard, SupportStates
<1>4. /\ at \in [Actors -> Rests \cup {"title", "saveTitle", "header", "saveHeader", "list"}]
      /\ then \in [Actors -> Rests]
  BY DEF Rests
<1>5. /\ copy \in [Actors -> Records] /\ loaded \in [Actors -> Moods]
      /\ how \in [Actors -> {"start", "resume", "reply"}]
      /\ said \in [Actors -> {"nothing", "news", "matter"}] /\ bad \in [Actors -> BOOLEAN]
  OBVIOUS
<1>6. overlap \in BOOLEAN /\ untold \in BOOLEAN OBVIOUS
<1>7. outcome \in {"none", "delivered", "failed", "broken"} OBVIOUS
<1>8. faults \in 0 .. MaxFaults OBVIOUS
<1>. QED BY <1>1, <1>2, <1>3, <1>4, <1>5, <1>6, <1>7, <1>8 DEF TypeOK

LEMMA RedrawTypes ==
  ASSUME TypeOK, NEW a \in Actors, Redraw(a)
  PROVE  TypeOK'
<1>. USE DEF TypeOK, Rests
<1>1. /\ Icon(copy[a].mood, copy[a].run) \in Icons
      /\ Card(copy[a].mood, copy[a].run) \in
           [state : {"none", "failed", "idle", "running"}, support : SupportStates, human : BOOLEAN]
      /\ Active(snap, record.run) \in BOOLEAN
  BY CopyTypes, ShownTypes
<1>2. CASE SyncTitle(a)
  <2>1. [copy[a] EXCEPT !.title = Icon(copy[a].mood, copy[a].run)] \in Records
    BY <1>1, CopyTypes DEF Records
  <2>. QED BY <1>1, <1>2, <2>1 DEF SyncTitle
<1>3. CASE SaveTitle(a) BY <1>3 DEF SaveTitle
<1>4. CASE EditHeader(a)
  <2>1. [copy[a] EXCEPT !.card = TRUE] \in Records BY CopyTypes DEF Records
  <2>2. copy' \in [Actors -> Records]
    <3>1. copy' = copy \/ Sets(copy, a, [copy[a] EXCEPT !.card = TRUE])
      BY <1>4, Zenon DEF EditHeader
    <3>. QED BY <2>1, <3>1 DEF Sets
  <2>4. headers' \in Nat BY <1>4 DEF EditHeader
  <2>3. at' \in [Actors -> Rests \cup {"title", "saveTitle", "header", "saveHeader", "list"}]
    BY <1>4 DEF EditHeader
  <2>. QED BY <1>1, <1>4, <2>2, <2>3, <2>4 DEF EditHeader
<1>5. CASE SaveHeader(a) BY <1>5 DEF SaveHeader
<1>6. CASE RefreshListing(a) BY <1>1, <1>6 DEF RefreshListing
<1>. QED BY <1>2, <1>3, <1>4, <1>5, <1>6 DEF Redraw

LEMMA RedrawsTypes ==
  ASSUME TypeOK, NEW a \in Actors, NEW mood \in Moods, NEW next \in Rests, Redraws(a, mood, next)
  PROVE  /\ snap' \in Moods /\ record' \in Records /\ copy' \in [Actors -> Records]
         /\ at' \in [Actors -> Rests \cup {"title", "saveTitle", "header", "saveHeader", "list"}]
         /\ then' \in [Actors -> Rests]
BY CopyTypes DEF Redraws, TypeOK, Rests

LEMMA ForgetsTypes ==
  ASSUME TypeOK, NEW a \in Actors, Forgets(a)
  PROVE  /\ copy' \in [Actors -> Records] /\ loaded' \in [Actors -> Moods]
         /\ at' \in [Actors -> Rests \cup {"title", "saveTitle", "header", "saveHeader", "list"}]
         /\ then' \in [Actors -> Rests]
         /\ how' \in [Actors -> {"start", "resume", "reply"}]
         /\ said' \in [Actors -> {"nothing", "news", "matter"}] /\ bad' \in [Actors -> BOOLEAN]
BY NewTypes DEF Forgets, TypeOK, Rests

LEMMA FailTypes ==
  ASSUME TypeOK, NEW actors \in SUBSET Actors, Fail(actors)
  PROVE  /\ faults' \in 0 .. MaxFaults /\ untold' \in BOOLEAN /\ title' \in Icons
         /\ headers' \in Nat /\ header' = header /\ listed' = listed
<1>1. \A a \in actors : Icon(copy[a].mood, copy[a].run) \in Icons BY CopyTypes, ShownTypes
<1>. QED BY <1>1 DEF Fail, TypeOK

LEMMA TurnTypes ==
  ASSUME TypeOK, NEW a \in Actors,
         TurnEnds(a) \/ TurnFails(a) \/
         \E kind \in Kinds, third \in BOOLEAN : Project(a, kind, third)
  PROVE  TypeOK'
<1>1. ASSUME NEW kind \in Kinds, NEW third \in BOOLEAN, Project(a, kind, third)
      PROVE  TypeOK'
  <2>1. Projected(snap, kind, third) \in Moods BY ProjectedType DEF TypeOK
  <2>2. at[a] \in Rests BY <1>1 DEF Project, Streaming, Rests
  <2>3. Redraws(a, Projected(snap, kind, third), at[a]) BY <1>1 DEF Project
  <2>. QED BY <1>1, <2>1, <2>2, <2>3, RedrawsTypes DEF Project, TypeOK
<1>2. ASSUME NEW run \in RunIds PROVE [copy[a] EXCEPT !.run = run] \in Records
  BY CopyTypes DEF Records
<1>3. CASE TurnEnds(a)
  BY <1>2, <1>3, NewTypes DEF TurnEnds, TypeOK, Rests
<1>4. CASE TurnFails(a)
  <2>1. FailedMood \in Moods BY FailedMoodType DEF TypeOK
  <2>2. ASSUME NEW run \in RunIds PROVE [Becomes(a, FailedMood) EXCEPT !.run = run] \in Records
    BY <2>1, CopyTypes DEF Records
  <2>. QED BY <1>4, <2>1, <2>2 DEF TurnFails, TypeOK, Rests
<1>. QED BY <1>1, <1>3, <1>4

LEMMA DeliveryTypes ==
  ASSUME TypeOK, NEW a \in Actors,
         NothingMore(a) \/ Clear(a) \/ Ignores(a) \/ Replies(a) \/ Delivered(a) \/
         \E support \in {"ask_human", "escalated"} : LeavesToHuman(a, support)
  PROVE  TypeOK'
<1>1. \A s \in SupportStates : Decided(snap, s) \in Moods BY DecidedType DEF TypeOK
<1>2. ASSUME NEW result \in {"delivered", "failed"}, Returns(a, result) PROVE TypeOK'
  BY <1>2, ForgetsTypes DEF Returns, TypeOK
<1>3. CASE NothingMore(a) \/ Ignores(a) BY <1>2, <1>3 DEF NothingMore, Ignores
<1>4. CASE Delivered(a) BY <1>2, <1>4 DEF Delivered
<1>5. ASSUME NEW s \in SupportStates, Redraws(a, Decided(snap, s), "delivered"),
             UNCHANGED <<config, runs, telegram, turnVars, history>>
      PROVE  TypeOK'
  BY <1>1, <1>5, RedrawsTypes DEF TypeOK, Rests
<1>6. CASE Clear(a) BY <1>2, <1>5, <1>6 DEF Clear, SupportStates
<1>7. CASE \E s \in {"ask_human", "escalated"} : LeavesToHuman(a, s)
  BY <1>5, <1>7 DEF LeavesToHuman, SupportStates
<1>8. CASE Replies(a)
  <2>1. Redraws(a, Decided(snap, "replied"), "turn") BY <1>8 DEF Replies
  <2>2. Decided(snap, "replied") \in Moods /\ "turn" \in Rests BY <1>1 DEF SupportStates, Rests
  <2>. QED BY <1>8, <2>1, <2>2, RedrawsTypes DEF Replies, TypeOK
<1>. QED BY <1>3, <1>4, <1>6, <1>7, <1>8

LEMMA FailureTypes ==
  ASSUME TypeOK,
         (\E a \in Actors : StreamBreaks(a)) \/ StartBreaks \/ Crash \/ BadResumeReturns
  PROVE  TypeOK'
<1>1. ASSUME NEW a \in Actors, StreamBreaks(a) PROVE TypeOK'
  <2>1. Fail({a}) BY <1>1 DEF StreamBreaks
  <2>. QED BY <1>1, <2>1, FailTypes DEF StreamBreaks, TypeOK, Rests
<1>2. CASE StartBreaks BY <1>2, FailTypes, ForgetsTypes DEF StartBreaks, TypeOK
<1>3. CASE Crash
  BY <1>3, FailTypes, NewTypes DEF Crash, EverybodyForgets, TypeOK, Rests
<1>4. CASE BadResumeReturns
  BY <1>4, NewTypes DEF BadResumeReturns, EverybodyForgets, TypeOK, Rests
<1>. QED BY <1>1, <1>2, <1>3, <1>4

LEMMA StepTypeOK == TypeOK /\ [Next]_vars => TypeOK'
<1>. SUFFICES ASSUME TypeOK, [Next]_vars PROVE TypeOK' OBVIOUS
<1>1. CASE Launch
  <2>1. [NoRecord EXCEPT !.run = 1] \in Records BY NewTypes DEF Records
  <2>. QED BY <1>1, <2>1 DEF Launch, TypeOK, Rests
<1>2. CASE HandsOver BY <1>2, NewTypes DEF HandsOver, TypeOK, Rests
<1>3. CASE ResumeBegins BY <1>3 DEF ResumeBegins, TypeOK, Rests
<1>4. CASE UNCHANGED vars BY <1>4 DEF TypeOK
<1>. QED BY <1>1, <1>2, <1>3, <1>4, RedrawTypes, TurnTypes, DeliveryTypes, FailureTypes DEF Next

-----------------------------------------------------------------------------
(* Every value is of its type, for any number of runs and of failures.     *)
THEOREM HeaderTypeCorrect == Spec => []TypeOK
<1>. QED BY InitTypeOK, StepTypeOK, PTL DEF Spec

-----------------------------------------------------------------------------
(* The header card.                                                        *)
LEMMA InitHeaderInv == Init => HeaderInv
<1>. SUFFICES ASSUME Init PROVE HeaderInv OBVIOUS
<1>1. CopiesKnow /\ NotYetSent /\ UnknownIsUnused /\ OneHeader
  BY DEF Init, CopiesKnow, NotYetSent, Creating, UnknownIsUnused, OneHeader
<1>. QED BY <1>1, InitTypeOK DEF HeaderInv

(* Once Main or the goroutine is at work on a session that exists, the     *)
(* record knows the header card.                                           *)
LEMMA WorkersKnow ==
  ASSUME HeaderInv, NEW a \in Actors, at[a] # "idle", a = "start" \/ ~Creating
  PROVE  copy[a].card /\ record # NoRecord /\ ~Creating
         /\ \/ record.card
            \/ a = "main" /\ at[a] = "saveHeader" /\ then[a] = "launched"
BY DEF HeaderInv, TypeOK, CopiesKnow, NotYetSent, UnknownIsUnused, Creating

(* The part of the invariant that is not about types.                      *)
Known == CopiesKnow /\ NotYetSent /\ UnknownIsUnused /\ OneHeader

(* A step of an actor that knows the header card leads to one that knows   *)
(* it and to a record that knows it, if it sends no other.                 *)
LEMMA StaysKnown ==
  ASSUME HeaderInv, NEW a \in Actors, at[a] # "idle", a = "start" \/ ~Creating,
         headers' = headers, TypeOK',
         record' = record \/ record'.card, UNCHANGED runs \/ record.card,
         \A b \in Actors \ {a} : at'[b] = at[b] /\ copy'[b] = copy[b],
         copy'[a].card \/ at'[a] = "idle",
         record'.card \/ at'[a] = "idle"
  PROVE  Known'
<1>1. copy[a].card /\ record # NoRecord /\ ~Creating BY WorkersKnow
<1>2. record.card \/ (a = "main" /\ at[a] = "saveHeader") BY WorkersKnow
<1>3. record' # NoRecord BY <1>1 DEF NoRecord
<1>4. CopiesKnow' /\ ~Creating' BY <1>1 DEF HeaderInv, CopiesKnow, Creating, TypeOK
<1>5. NotYetSent' BY <1>3, <1>4 DEF NotYetSent
<1>6. UnknownIsUnused'
  BY <1>1, <1>2 DEF HeaderInv, UnknownIsUnused, TypeOK
<1>. QED BY <1>4, <1>5, <1>6 DEF HeaderInv, OneHeader, Known

LEMMA RedrawKnown ==
  ASSUME HeaderInv, TypeOK', NEW a \in Actors, Redraw(a)
  PROVE  Known'
<1>. USE DEF TypeOK, Records
<1>1. at[a] # "idle" /\ runs' = runs
  BY DEF Redraw, SyncTitle, SaveTitle, EditHeader, SaveHeader, RefreshListing
<1>2. CASE a = "start" \/ ~Creating
  <2>1. copy[a].card /\ (record.card \/ at[a] = "saveHeader") BY <1>1, <1>2, WorkersKnow
  <2>2. /\ headers' = headers /\ (record' = record \/ record'.card)
        /\ \A b \in Actors \ {a} : at'[b] = at[b] /\ copy'[b] = copy[b]
        /\ copy'[a].card /\ record'.card
    <3>1. CASE SyncTitle(a) BY <2>1, <3>1 DEF SyncTitle, HeaderInv
    <3>2. CASE SaveTitle(a) BY <2>1, <3>2 DEF SaveTitle, HeaderInv
    <3>3. CASE EditHeader(a) BY <2>1, <3>3 DEF EditHeader, HeaderInv
    <3>4. CASE SaveHeader(a) BY <2>1, <3>4 DEF SaveHeader, HeaderInv
    <3>5. CASE RefreshListing(a) BY <2>1, <3>5 DEF RefreshListing, HeaderInv
    <3>. QED BY <3>1, <3>2, <3>3, <3>4, <3>5 DEF Redraw
  <2>. QED BY <1>1, <1>2, <2>1, <2>2, StaysKnown
<1>3. CASE a = "main" /\ Creating
  <2>1. /\ headers = 0 /\ ~copy["main"].card /\ copy["main"].run = 1 /\ then["main"] = "launched"
        /\ record # NoRecord /\ ~record.card /\ record.run = 1 /\ runs[1] = "active"
        /\ at["start"] = "idle"
    BY <1>3 DEF HeaderInv, Creating, NotYetSent, UnknownIsUnused
  <2>2. /\ then' = then /\ at'["start"] = "idle" /\ copy'["main"].run = 1
        /\ record'.run = 1 /\ ~record'.card
        /\ \/ at'["main"] \in {"saveTitle", "header"} /\ ~copy'["main"].card /\ headers' = 0
           \/ at'["main"] = "saveHeader" /\ copy'["main"].card /\ headers' = 1
    <3>1. CASE SyncTitle(a) BY <1>3, <2>1, <3>1 DEF SyncTitle, HeaderInv
    <3>2. CASE SaveTitle(a) BY <1>3, <2>1, <3>2 DEF SaveTitle, HeaderInv
    <3>3. CASE EditHeader(a) BY <1>3, <2>1, <3>3 DEF EditHeader, HeaderInv
    <3>4. CASE SaveHeader(a) \/ RefreshListing(a)
      BY <1>3, <3>4 DEF SaveHeader, RefreshListing, Creating
    <3>. QED BY <3>1, <3>2, <3>3, <3>4 DEF Redraw
  <2>3. record' # NoRecord BY <2>2 DEF NoRecord
  <2>. QED BY <1>1, <2>1, <2>2, <2>3
         DEF Known, CopiesKnow, NotYetSent, UnknownIsUnused, OneHeader, Creating
<1>. QED BY <1>2, <1>3

LEMMA TurnKnown ==
  ASSUME HeaderInv, TypeOK', NEW a \in Actors,
         \/ TurnEnds(a) \/ TurnFails(a)
         \/ \E kind \in Kinds, third \in BOOLEAN : Project(a, kind, third)
         \/ NothingMore(a) \/ Clear(a) \/ Ignores(a) \/ Replies(a) \/ Delivered(a)
         \/ \E support \in {"ask_human", "escalated"} : LeavesToHuman(a, support)
  PROVE  Known'
<1>. USE DEF TypeOK
<1>1. at[a] \notin {"idle", "title", "saveTitle", "header", "saveHeader"}
  BY DEF TurnEnds, TurnFails, Project, Streaming, NothingMore, Clear, Ignores, Replies, Delivered,
         LeavesToHuman
<1>2. a = "start" \/ ~Creating BY <1>1 DEF Creating
<1>3. copy[a].card /\ record.card BY <1>1, <1>2, WorkersKnow
<1>4. headers' = headers
  BY DEF TurnEnds, TurnFails, Project, NothingMore, Clear, Ignores, Replies, Delivered,
         LeavesToHuman, Returns
<1>5. ASSUME NEW mood \in Moods, NEW next, Redraws(a, mood, next)
      PROVE  /\ record'.card /\ copy'[a].card
             /\ \A b \in Actors \ {a} : at'[b] = at[b] /\ copy'[b] = copy[b]
  BY <1>3, <1>5, CopyTypes DEF Redraws, HeaderInv
<1>6. ASSUME NEW result, Returns(a, result)
      PROVE  /\ record' = record /\ at'[a] = "idle"
             /\ \A b \in Actors \ {a} : at'[b] = at[b] /\ copy'[b] = copy[b]
  BY <1>6 DEF Returns, Forgets, HeaderInv
<1>7. \A s \in SupportStates : Decided(snap, s) \in Moods BY DecidedType DEF HeaderInv
<1>8. /\ record'.card /\ (copy'[a].card \/ at'[a] = "idle")
      /\ \A b \in Actors \ {a} : at'[b] = at[b] /\ copy'[b] = copy[b]
  <2>1. CASE NothingMore(a) \/ Ignores(a) \/ Delivered(a)
    BY <1>3, <1>6, <2>1 DEF NothingMore, Ignores, Delivered
  <2>2. CASE Clear(a) BY <1>3, <1>5, <1>6, <1>7, <2>2 DEF Clear, SupportStates
  <2>3. CASE Replies(a) BY <1>5, <1>7, <2>3 DEF Replies, SupportStates
  <2>4. CASE \E s \in {"ask_human", "escalated"} : LeavesToHuman(a, s)
    BY <1>5, <1>7, <2>4 DEF LeavesToHuman, SupportStates
  <2>5. ASSUME NEW kind \in Kinds, NEW third \in BOOLEAN, Project(a, kind, third)
        PROVE  /\ record'.card /\ copy'[a].card
               /\ \A b \in Actors \ {a} : at'[b] = at[b] /\ copy'[b] = copy[b]
    <3>1. Projected(snap, kind, third) \in Moods BY ProjectedType DEF HeaderInv
    <3>. QED BY <1>5, <2>5, <3>1 DEF Project
  <2>6. CASE TurnEnds(a)
    <3>1. ASSUME NEW run \in RunIds PROVE [copy[a] EXCEPT !.run = run].card
      BY <1>3, CopyTypes DEF Records, HeaderInv
    <3>. QED BY <1>3, <2>6, <3>1 DEF TurnEnds, HeaderInv
  <2>7. CASE TurnFails(a)
    <3>1. FailedMood \in Moods BY FailedMoodType DEF HeaderInv
    <3>2. ASSUME NEW run \in RunIds PROVE [Becomes(a, FailedMood) EXCEPT !.run = run].card
      BY <1>3, <3>1, CopyTypes DEF Records, HeaderInv
    <3>. QED BY <2>7, <3>2 DEF TurnFails, HeaderInv
  <2>. QED BY <2>1, <2>2, <2>3, <2>4, <2>5, <2>6, <2>7
<1>. QED BY <1>1, <1>2, <1>3, <1>4, <1>8, StaysKnown

LEMMA FailureKnown ==
  ASSUME HeaderInv, TypeOK',
         (\E a \in Actors : StreamBreaks(a)) \/ StartBreaks \/ Crash \/ BadResumeReturns
  PROVE  Known'
<1>. USE DEF TypeOK, HeaderInv
<1>1. ASSUME NEW a \in Actors, StreamBreaks(a) PROVE Known'
  <2>1. at[a] # "idle" /\ then[a] = "turn" BY <1>1 DEF StreamBreaks, Redrawing
  <2>2. a = "start" \/ ~Creating BY <2>1 DEF NotYetSent
  <2>3. copy[a].card BY <2>1, <2>2, WorkersKnow
  <2>4. record.card BY <2>1, <2>2, WorkersKnow
  <2>. QED BY <1>1, <2>1, <2>2, <2>3, <2>4, StaysKnown DEF StreamBreaks, Fail
<1>2. CASE StartBreaks
  <2>1. at["start"] # "idle" BY <1>2 DEF StartBreaks
  <2>2. copy["start"].card /\ record.card BY <2>1, WorkersKnow
  <2>3. /\ headers' = headers /\ record' = record /\ runs' = runs /\ at'["start"] = "idle"
        /\ at'["main"] = at["main"] /\ copy'["main"] = copy["main"]
    BY <1>2, <2>2 DEF StartBreaks, Fail, Forgets
  <2>. QED BY <2>1, <2>2, <2>3, StaysKnown
<1>3. ASSUME EverybodyForgets, record # NoRecord, record' = record, runs' = runs, headers' \in {0, 1}
      PROVE  Known'
  BY <1>3 DEF EverybodyForgets, Known, CopiesKnow, NotYetSent, UnknownIsUnused, OneHeader, Creating
<1>4. CASE Crash
  <2>1. PICK a \in Actors : at[a] # "idle" BY <1>4 DEF Crash
  <2>2. record # NoRecord BY <2>1 DEF NotYetSent
  <2>3. headers' \in {0, 1}
    <3>1. CASE headers' = headers BY <3>1 DEF OneHeader
    <3>2. CASE headers' # headers
      <4>1. PICK b \in Actors : at[b] = "header" /\ ~copy[b].card /\ headers' = headers + 1
        BY <1>4, <3>2 DEF Crash, Fail
      <4>2. Creating BY <4>1 DEF CopiesKnow, Creating
      <4>. QED BY <4>1, <4>2 DEF NotYetSent
    <3>. QED BY <3>1, <3>2
  <2>. QED BY <1>3, <1>4, <2>2, <2>3 DEF Crash
<1>5. CASE BadResumeReturns
  <2>1. record # NoRecord BY <1>5 DEF BadResumeReturns, NotYetSent
  <2>2. headers' \in {0, 1} BY <1>5 DEF BadResumeReturns, OneHeader
  <2>. QED BY <1>3, <1>5, <2>1, <2>2 DEF BadResumeReturns
<1>. QED BY <1>1, <1>2, <1>4, <1>5

LEMMA StepHeaderInv == HeaderInv /\ [Next]_vars => HeaderInv'
<1>. SUFFICES ASSUME HeaderInv, [Next]_vars PROVE HeaderInv' OBVIOUS
<1>1. TypeOK' BY StepTypeOK DEF HeaderInv
<1>. SUFFICES Known' BY <1>1 DEF HeaderInv, Known
<1>2. CASE Launch
  <2>1. /\ record = NoRecord /\ headers = 0 /\ at["start"] = "idle"
    BY <1>2 DEF Launch, HeaderInv, NotYetSent
  <2>2. /\ record'.run = 1 /\ ~record'.card /\ copy'["main"] = record' /\ runs'[1] = "active"
        /\ at'["main"] = "title" /\ then'["main"] = "launched" /\ headers' = headers
        /\ at'["start"] = at["start"]
    BY <1>2 DEF Launch, HeaderInv, TypeOK, NoRecord
  <2>3. record' # NoRecord BY <2>2 DEF NoRecord
  <2>. QED BY <2>1, <2>2, <2>3
         DEF Known, CopiesKnow, NotYetSent, UnknownIsUnused, OneHeader, Creating
<1>3. CASE HandsOver
  <2>1. copy["main"].card /\ record.card /\ record # NoRecord
    BY <1>3, WorkersKnow DEF HandsOver, Creating
  <2>2. /\ copy'["start"].card /\ at'["main"] = "idle" /\ record' = record /\ headers' = headers
    BY <1>3, <2>1 DEF HandsOver, HeaderInv, TypeOK
  <2>. QED BY <2>1, <2>2
         DEF HeaderInv, Known, CopiesKnow, NotYetSent, UnknownIsUnused, OneHeader, Creating
<1>4. CASE ResumeBegins
  <2>1. record # NoRecord /\ record.card
    BY <1>4 DEF ResumeBegins, Resumable, HeaderInv, UnknownIsUnused
  <2>2. /\ copy'["main"].card /\ at'["main"] = "turn" /\ record' = record /\ headers' = headers
        /\ at'["start"] = at["start"] /\ copy'["start"] = copy["start"]
    BY <1>4, <2>1 DEF ResumeBegins, HeaderInv, TypeOK
  <2>. QED BY <2>1, <2>2
         DEF HeaderInv, Known, CopiesKnow, NotYetSent, UnknownIsUnused, OneHeader, Creating
<1>5. CASE UNCHANGED vars
  BY <1>5 DEF HeaderInv, Known, CopiesKnow, NotYetSent, UnknownIsUnused, OneHeader, Creating
<1>. QED BY <1>1, <1>2, <1>3, <1>4, <1>5, RedrawKnown, TurnKnown, FailureKnown DEF Next

(* The inductive invariant: who knows the header card, and that nobody but *)
(* the launch works on a session whose card is not on record.              *)
THEOREM HeaderInvariance == Spec => []HeaderInv
<1>. QED BY InitHeaderInv, StepHeaderInv, PTL DEF Spec

(* A session has one header card, however its launch ends, however often   *)
(* calls and saves fail, and whoever redraws the card                      *)
(* (upsertSessionHeaderCard, finishStart).                                 *)
THEOREM SendsOneHeader == Spec => []OneHeader
<1>1. HeaderInv => OneHeader BY DEF HeaderInv
<1>. QED BY <1>1, HeaderInvariance, PTL

-----------------------------------------------------------------------------
(* What is shown.  The sole actor at work carries it from one place to the *)
(* next; what it leaves behind is true of the record.                      *)
Busy(a) == at[a] # "idle"

(* Unless they have overlapped one actor works at a time.                  *)
Alone == ~overlap => ~Busy("main") \/ ~Busy("start")

(* What the actor at work remembers of the title is what Telegram has, and *)
(* the record has it too but for the moment before its save.               *)
KnowsTitle(a) == copy[a].title = title /\ (at[a] # "saveTitle" => record.title = title)

TitleKept ==
  ~overlap /\ ~untold =>
    /\ AtRest => record.title = title
    /\ \A a \in Actors : Busy(a) => KnowsTitle(a)

(* Errors and lost saves come from faults, and before the launch there is  *)
(* no news.                                                                *)
Unharmed ==
  /\ faults = 0 => ~untold /\ \A a \in Actors : ~bad[a]
  /\ record = NoRecord => snap = NewMood

(* The titles, the header cards and the listing that suit a mood.  None of *)
(* them depends on the run, but that a card may still say "running" when   *)
(* the run is over.                                                        *)
Titles(m) ==
  {t \in Icons : /\ t \in {"blocked", "question"} => Human(m)
                 /\ Human(m) /\ ~m.failed =>
                      /\ m.blocker => t = "blocked"
                      /\ ~m.blocker /\ m.question => t = "question"}

Labels(m, status) ==
  IF m.failed THEN {"failed"}
  ELSE IF status \notin {"active", "none"} /\ ~Human(m) THEN {"idle", "running"} ELSE {"running"}

Faces(m, status) ==
  {[state |-> label, support |-> m.support, human |-> Human(m)] : label \in Labels(m, status)}

Lists(m) == Human(m) \/ ~m.failed

Heading(a) == IF Redrawing(a) THEN then[a] ELSE at[a]

(* What the actor at work has shown of its copy.                           *)
HasDrawn(a) ==
  /\ record.mood = copy[a].mood /\ record.run = copy[a].run
  /\ Redrawing(a) => snap = copy[a].mood /\ then[a] # "idle"
  /\ at[a] # "title" => title \in Titles(copy[a].mood)
  /\ at[a] \notin {"title", "saveTitle", "header"} =>
       header \in Faces(copy[a].mood, runs[copy[a].run])
  /\ ~Redrawing(a) => (Lists(copy[a].mood) => listed)
  /\ Heading(a) = "failed" => Human(copy[a].mood)
  /\ how[a] = "start" \/ Heading(a) = "launched" => copy[a].run = 1

(* What the last of them has left behind.                                  *)
HasShown ==
  /\ title \in Titles(record.mood) /\ header \in Faces(record.mood, runs[record.run])
  /\ Lists(record.mood) => listed
  /\ outcome = "delivered" \/ (outcome = "failed" /\ Human(record.mood))

(* One actor at a time and no fault: what is shown follows the record.     *)
QuietInv ==
  ~overlap /\ faults = 0 =>
    /\ AtRest /\ record # NoRecord => HasShown
    /\ \A a \in Actors : Busy(a) => HasDrawn(a)

(* Inductive together with HeaderInv.                                      *)
ShownInv == Alone /\ TitleKept /\ Unharmed /\ QuietInv

LEMMA IconFits ==
  ASSUME NEW m \in Moods, NEW run
  PROVE  Icon(m, run) \in Titles(m)
<1>1. Icon(m, run) \in Icons BY ShownTypes
<1>. QED BY <1>1 DEF Icon, Titles, Human, Moods

LEMMA CardFits ==
  ASSUME NEW m \in Moods, NEW run
  PROVE  Card(m, run) \in Faces(m, runs[run])
<1>1. Label(m, run) \in Labels(m, runs[run]) BY DEF Label, Labels, Waits, Moods
<1>. QED BY <1>1 DEF Card, Faces

LEMMA RunEnds ==
  ASSUME NEW m, NEW status, NEW h \in Faces(m, status)
  PROVE  h \in Faces(m, "exited")
<1>1. Labels(m, status) \subseteq Labels(m, "exited") BY DEF Labels
<1>. QED BY <1>1 DEF Faces

LEMMA ActiveIsListed ==
  ASSUME NEW m \in Moods, NEW run, Lists(m)
  PROVE  Active(m, run)
<1>1. m.failed \/ Label(m, run) \in {"idle", "running"} BY DEF Label
<1>. QED BY <1>1 DEF Lists, Active

(* A step of an actor at work that nobody shares.                          *)
LEMMA SoleStep ==
  ASSUME HeaderInv, HeaderInv', ShownInv, NEW a \in Actors, Busy(a),
         overlap' = overlap, \A b \in Actors \ {a} : at'[b] = at[b],
         at'[a] # "idle" \/ record' = record,
         faults' = 0 => ~untold' /\ \A b \in Actors : ~bad'[b],
         ~overlap /\ ~untold' => IF at'[a] = "idle" THEN record'.title = title' ELSE KnowsTitle(a)',
         ~overlap /\ faults' = 0 => IF at'[a] = "idle" THEN HasShown' ELSE HasDrawn(a)'
  PROVE  ShownInv'
<1>1. Alone' BY DEF ShownInv, Alone, Busy
<1>2. ~overlap => \A b \in Actors : Busy(b)' => b = a BY DEF ShownInv, Alone, Busy
<1>3. AtRest' => at'[a] = "idle" BY DEF AtRest
<1>4. TitleKept' BY <1>2, <1>3 DEF TitleKept, Busy
<1>5. QuietInv' BY <1>2, <1>3 DEF QuietInv, Busy
<1>6. record # NoRecord BY DEF HeaderInv, NotYetSent, Busy
<1>7. record' # NoRecord
  <2>1. CASE at'[a] # "idle" BY <2>1 DEF HeaderInv, NotYetSent
  <2>2. CASE record' = record BY <1>6, <2>2
  <2>. QED BY <2>1, <2>2
<1>8. Unharmed' BY <1>7 DEF Unharmed
<1>. QED BY <1>1, <1>4, <1>5, <1>8 DEF ShownInv

(* What the actor at work knows, if no fault and no other disturbs it.     *)
LEMMA Undisturbed ==
  ASSUME ShownInv, NEW a \in Actors, Busy(a), ~overlap
  PROVE  /\ ~untold => KnowsTitle(a)
         /\ faults = 0 => HasDrawn(a) /\ ~untold /\ \A b \in Actors : ~bad[b]
BY DEF ShownInv, TitleKept, Unharmed, QuietInv

LEMMA RedrawShown ==
  ASSUME HeaderInv, HeaderInv', ShownInv, NEW a \in Actors, Redraw(a)
  PROVE  ShownInv'
<1>. USE DEF TypeOK
<1>. TypeOK /\ copy[a] \in Records /\ copy[a].mood \in Moods BY CopyTypes DEF HeaderInv
<1>1. /\ Busy(a) /\ UNCHANGED <<history, turnVars, runs, snap>>
      /\ \A b \in Actors \ {a} : at'[b] = at[b]
  BY DEF Redraw, SyncTitle, SaveTitle, EditHeader, SaveHeader, RefreshListing, Busy
<1>2. at'[a] # "idle" \/ record' = record
  BY DEF Redraw, SyncTitle, SaveTitle, EditHeader, SaveHeader, RefreshListing
<1>3. faults' = 0 => ~untold' /\ \A b \in Actors : ~bad'[b] BY <1>1 DEF ShownInv, Unharmed
<1>4. ASSUME ~overlap, ~untold
      PROVE  IF at'[a] = "idle" THEN record'.title = title' ELSE KnowsTitle(a)'
  <2>. KnowsTitle(a) BY <1>1, <1>4, Undisturbed
  <2>. USE DEF KnowsTitle, Records
  <2>1. CASE SyncTitle(a) BY <2>1 DEF SyncTitle
  <2>2. CASE SaveTitle(a) BY <2>2 DEF SaveTitle
  <2>3. CASE EditHeader(a) BY <2>3 DEF EditHeader
  <2>4. CASE SaveHeader(a) BY <2>4 DEF SaveHeader
  <2>5. CASE RefreshListing(a) BY <2>5 DEF RefreshListing
  <2>. QED BY <2>1, <2>2, <2>3, <2>4, <2>5 DEF Redraw
<1>5. ASSUME ~overlap, faults = 0
      PROVE  IF at'[a] = "idle" THEN HasShown' ELSE HasDrawn(a)'
  <2>. HasDrawn(a) /\ KnowsTitle(a) BY <1>1, <1>5, Undisturbed
  <2>. USE <1>1 DEF HasDrawn, Redrawing, Heading, Records
  <2>1. CASE SyncTitle(a)
    <3>1. Icon(copy[a].mood, copy[a].run) \in Titles(copy[a].mood) BY IconFits
    <3>2. title' = Icon(copy[a].mood, copy[a].run) BY <2>1 DEF SyncTitle, KnowsTitle
    <3>3. /\ copy'[a].mood = copy[a].mood /\ copy'[a].run = copy[a].run
          /\ at'[a] \in {"header", "saveTitle"} /\ UNCHANGED <<record, then, header>>
      BY <2>1 DEF SyncTitle
    <3>. QED BY <3>1, <3>2, <3>3, <2>1 DEF SyncTitle
  <2>2. CASE SaveTitle(a) BY <2>2 DEF SaveTitle
  <2>3. CASE EditHeader(a)
    <3>1. header' \in Faces(copy[a].mood, runs[copy[a].run]) BY <2>3, CardFits DEF EditHeader
    <3>2. /\ copy'[a].mood = copy[a].mood /\ copy'[a].run = copy[a].run
          /\ at'[a] \in {"list", "saveHeader"} /\ UNCHANGED <<record, then, title>>
      BY <2>3 DEF EditHeader
    <3>. QED BY <3>1, <3>2, <2>3 DEF EditHeader
  <2>4. CASE SaveHeader(a) BY <2>4 DEF SaveHeader
  <2>5. CASE RefreshListing(a)
    <3>1. Lists(copy[a].mood) => listed'
      <4>1. snap = copy[a].mood BY <2>5 DEF RefreshListing
      <4>2. listed' = Active(snap, record.run) BY <2>5 DEF RefreshListing
      <4>3. Lists(copy[a].mood) => Active(snap, record.run) BY <4>1, ActiveIsListed
      <4>. QED BY Zenon, <4>2, <4>3
    <3>2. /\ UNCHANGED <<record, copy, title, header>> /\ then'[a] = "idle" /\ at'[a] = then[a]
          /\ at[a] = "list"
      BY <2>5 DEF RefreshListing
    <3>3. at'[a] \in Rests \ {"idle"} BY <3>2
    <3>. QED BY <3>1, <3>2, <3>3 DEF Rests
  <2>. QED BY <2>1, <2>2, <2>3, <2>4, <2>5 DEF Redraw
<1>. QED BY <1>1, <1>2, <1>3, <1>4, <1>5, SoleStep

(* A handler returns: what it has drawn stays.                             *)
LEMMA ReturnsShown ==
  ASSUME HeaderInv, HeaderInv', ShownInv, NEW a \in Actors, NEW result \in {"delivered", "failed"},
         Returns(a, result), at[a] \in {"deliver", "delivered", "failed"},
         result = "failed" => at[a] = "failed"
  PROVE  ShownInv'
<1>. USE DEF TypeOK
<1>. TypeOK BY DEF HeaderInv
<1>1. /\ Busy(a) /\ at'[a] = "idle" /\ outcome' = result
      /\ UNCHANGED <<disk, telegram, overlap, untold, faults>>
      /\ \A b \in Actors \ {a} : at'[b] = at[b]
      /\ \A b \in Actors : bad'[b] => bad[b]
  BY DEF Returns, Forgets, Busy
<1>2. faults' = 0 => ~untold' /\ \A b \in Actors : ~bad'[b] BY <1>1 DEF ShownInv, Unharmed
<1>3. ASSUME ~overlap, ~untold PROVE record'.title = title'
  BY <1>1, <1>3, Undisturbed DEF KnowsTitle
<1>4. ASSUME ~overlap, faults = 0 PROVE HasShown'
  <2>1. HasDrawn(a) BY <1>1, <1>4, Undisturbed
  <2>. QED BY <1>1, <2>1 DEF HasDrawn, HasShown, Redrawing, Heading
<1>. QED BY <1>1, <1>2, <1>3, <1>4, SoleStep

(* A mood is saved, and all will be redrawn.                               *)
LEMMA RedrawsShown ==
  ASSUME HeaderInv, HeaderInv', ShownInv, NEW a \in Actors, NEW mood \in Moods,
         NEW next \in {"turn", "deliver", "delivered"}, Redraws(a, mood, next),
         at[a] \in {"turn", "deliver"}, how' = how \/ how'[a] = "reply",
         UNCHANGED <<runs, telegram, bad, overlap, untold, faults>>
  PROVE  ShownInv'
<1>. USE DEF TypeOK
<1>. TypeOK BY DEF HeaderInv
<1>1. /\ Busy(a) /\ at'[a] = "title" /\ then'[a] = next
      /\ \A b \in Actors \ {a} : at'[b] = at[b]
      /\ record' = Becomes(a, mood) /\ copy'[a] = Becomes(a, mood) /\ snap' = mood
  BY DEF Redraws, Busy
<1>2. /\ Becomes(a, mood).mood = mood /\ Becomes(a, mood).run = copy[a].run
      /\ Becomes(a, mood).title = copy[a].title
  BY CopyTypes DEF Becomes, Records
<1>3. faults' = 0 => ~untold' /\ \A b \in Actors : ~bad'[b] BY DEF ShownInv, Unharmed
<1>4. ASSUME ~overlap, ~untold PROVE KnowsTitle(a)'
  <2>1. KnowsTitle(a) BY <1>1, <1>4, Undisturbed
  <2>. QED BY <1>1, <1>2, <2>1 DEF KnowsTitle
<1>5. ASSUME ~overlap, faults = 0 PROVE HasDrawn(a)'
  <2>1. HasDrawn(a) BY <1>1, <1>5, Undisturbed
  <2>2. how'[a] = "start" => copy[a].run = 1 BY <2>1 DEF HasDrawn
  <2>. QED BY <1>1, <1>2, <2>2 DEF HasDrawn, Redrawing, Heading
<1>. QED BY <1>1, <1>3, <1>4, <1>5, SoleStep

LEMMA DeliveryShown ==
  ASSUME HeaderInv, HeaderInv', ShownInv, NEW a \in Actors,
         \/ \E kind \in Kinds, third \in BOOLEAN : Project(a, kind, third)
         \/ NothingMore(a) \/ Clear(a) \/ Ignores(a) \/ Replies(a) \/ Delivered(a)
         \/ \E support \in {"ask_human", "escalated"} : LeavesToHuman(a, support)
  PROVE  ShownInv'
<1>. snap \in Moods BY DEF HeaderInv, TypeOK
<1>1. \A s \in SupportStates : Decided(snap, s) \in Moods BY DecidedType
<1>2. ASSUME NEW kind \in Kinds, NEW third \in BOOLEAN, Project(a, kind, third) PROVE ShownInv'
  <2>1. Projected(snap, kind, third) \in Moods BY ProjectedType
  <2>2. at[a] \in {"turn", "deliver"} BY <1>2 DEF Project, Streaming
  <2>. QED BY <1>2, <2>1, <2>2, RedrawsShown DEF Project
<1>3. CASE NothingMore(a) \/ Ignores(a) BY <1>3, ReturnsShown DEF NothingMore, Ignores
<1>4. CASE Delivered(a) BY <1>4, ReturnsShown DEF Delivered
<1>5. CASE Clear(a) BY <1>1, <1>5, ReturnsShown, RedrawsShown DEF Clear, SupportStates
<1>6. CASE Replies(a)
  <2>1. how'[a] = "reply" BY <1>6 DEF Replies, HeaderInv, TypeOK
  <2>. QED BY <1>1, <1>6, <2>1, RedrawsShown DEF Replies, SupportStates
<1>7. ASSUME NEW s \in {"ask_human", "escalated"}, LeavesToHuman(a, s) PROVE ShownInv'
  BY <1>1, <1>7, RedrawsShown DEF LeavesToHuman, SupportStates
<1>. QED BY <1>2, <1>3, <1>4, <1>5, <1>6, <1>7

(* A run is over.  Only the header card shows a run, and it may be late.   *)
LEMMA TurnShown ==
  ASSUME HeaderInv, HeaderInv', ShownInv, NEW a \in Actors, TurnEnds(a) \/ TurnFails(a)
  PROVE  ShownInv'
<1>. USE DEF TypeOK
<1>. TypeOK /\ copy[a] \in Records BY CopyTypes DEF HeaderInv
<1>1. CASE TurnEnds(a)
  <2>1. PICK run \in RunIds :
          /\ NewRun(a, run) /\ runs' = [runs EXCEPT ![run] = "exited"]
          /\ copy' = [copy EXCEPT ![a] = [copy[a] EXCEPT !.run = run]]
          /\ record' = IF how[a] = "start" THEN record ELSE [copy[a] EXCEPT !.run = run]
    BY <1>1 DEF TurnEnds
  <2>2. /\ copy'[a] = [copy[a] EXCEPT !.run = run] /\ copy'[a].run = run
        /\ copy'[a].mood = copy[a].mood /\ copy'[a].title = copy[a].title
        /\ runs'[run] = "exited"
    BY <2>1 DEF Records
  <2>3. /\ Busy(a) /\ at[a] = "turn" /\ at'[a] = "deliver" /\ then'[a] = "idle"
        /\ \A b \in Actors \ {a} : at'[b] = at[b]
        /\ UNCHANGED <<telegram, how, bad, history>>
    BY <1>1 DEF TurnEnds, Busy
  <2>4. faults' = 0 => ~untold' /\ \A b \in Actors : ~bad'[b] BY <2>3 DEF ShownInv, Unharmed
  <2>5. ASSUME ~overlap, ~untold PROVE KnowsTitle(a)'
    <3>1. KnowsTitle(a) BY <2>3, <2>5, Undisturbed
    <3>. QED BY <2>1, <2>2, <2>3, <3>1 DEF KnowsTitle
  <2>6. ASSUME ~overlap, faults = 0 PROVE HasDrawn(a)'
    <3>1. HasDrawn(a) BY <2>3, <2>6, Undisturbed
    <3>2. how[a] = "start" => run = 1 /\ copy[a].run = 1
      BY <2>1, <3>1 DEF NewRun, HasDrawn
    <3>3. record'.mood = copy[a].mood /\ record'.run = run
      BY <2>1, <2>2, <3>1, <3>2 DEF HasDrawn
    <3>4. header \in Faces(copy[a].mood, "exited") BY <2>3, <3>1, RunEnds DEF HasDrawn
    <3>. QED BY <2>2, <2>3, <3>1, <3>2, <3>3, <3>4 DEF HasDrawn, Redrawing, Heading
  <2>. QED BY <2>3, <2>4, <2>5, <2>6, SoleStep
<1>2. CASE TurnFails(a)
  <2>. FailedMood \in Moods BY FailedMoodType
  <2>1. PICK run \in RunIds :
          /\ NewRun(a, run)
          /\ record' = [Becomes(a, FailedMood) EXCEPT !.run = run]
          /\ copy' = [copy EXCEPT ![a] = record']
    BY <1>2 DEF TurnFails
  <2>2. /\ copy'[a] = record' /\ record'.run = run /\ record'.mood = FailedMood
        /\ record'.title = copy[a].title
    BY <2>1 DEF Becomes, Records
  <2>3. /\ Busy(a) /\ at[a] = "turn" /\ at'[a] = "title" /\ then'[a] = "failed"
        /\ \A b \in Actors \ {a} : at'[b] = at[b] /\ snap' = FailedMood
        /\ UNCHANGED <<telegram, how, bad, history>>
    BY <1>2 DEF TurnFails, Busy
  <2>4. faults' = 0 => ~untold' /\ \A b \in Actors : ~bad'[b] BY <2>3 DEF ShownInv, Unharmed
  <2>5. ASSUME ~overlap, ~untold PROVE KnowsTitle(a)'
    <3>1. KnowsTitle(a) BY <2>3, <2>5, Undisturbed
    <3>. QED BY <2>2, <2>3, <3>1 DEF KnowsTitle
  <2>6. Human(FailedMood)
    <3>1. [snap EXCEPT !.failed = TRUE, !.blocker = TRUE] \in Moods BY DEF Moods
    <3>. QED BY <3>1 DEF FailedMood, Decided, Human, Moods
  <2>7. ASSUME ~overlap, faults = 0 PROVE HasDrawn(a)'
    <3>1. how[a] = "start" => run = 1 BY <2>1 DEF NewRun
    <3>. QED BY <2>2, <2>3, <2>6, <3>1 DEF HasDrawn, Redrawing, Heading
  <2>. QED BY <2>3, <2>4, <2>5, <2>7, SoleStep
<1>. QED BY <1>1, <1>2

(* A fault ends the quiet; an edit whose save is lost is remembered.       *)
LEMMA FailureShown ==
  ASSUME HeaderInv, HeaderInv', ShownInv,
         (\E a \in Actors : StreamBreaks(a)) \/ StartBreaks \/ Crash \/ BadResumeReturns
  PROVE  ShownInv'
<1>. USE DEF TypeOK
<1>. TypeOK BY DEF HeaderInv
<1>1. ASSUME NEW actors \in SUBSET Actors, Fail(actors)
      PROVE  /\ faults' # 0 /\ (untold => untold')
             /\ ~untold' => title' = title /\ \A b \in actors : at[b] \notin {"title", "saveTitle"}
  <2>1. faults' # 0 BY <1>1 DEF Fail
  <2>2. untold' <=> untold \/ \E b \in actors : at[b] \in {"title", "saveTitle"}
    BY Zenon, <1>1 DEF Fail
  <2>3. (\A b \in actors : at[b] # "title") => title' = title
    <3>1. title' \in {title} \cup
            {Icon(copy[a].mood, copy[a].run) : a \in {b \in actors : at[b] = "title"}}
      BY <1>1 DEF Fail
    <3>. QED BY <3>1
  <2>. QED BY <2>1, <2>2, <2>3
<1>2. ASSUME NEW a \in Actors, StreamBreaks(a) PROVE ShownInv'
  <2>1. /\ Busy(a) /\ at'[a] = "turn" /\ UNCHANGED <<copy, record, overlap>> /\ Fail({a})
        /\ \A b \in Actors \ {a} : at'[b] = at[b]
    BY <1>2 DEF StreamBreaks, Redrawing, Busy
  <2>2. ASSUME ~overlap, ~untold' PROVE KnowsTitle(a)'
    <3>1. ~untold /\ title' = title /\ at[a] # "saveTitle" BY <1>1, <2>1, <2>2
    <3>. QED BY <2>1, <2>2, <3>1, Undisturbed DEF KnowsTitle
  <2>3. faults' # 0 BY <1>1, <2>1
  <2>. QED BY <2>1, <2>2, <2>3, SoleStep
<1>3. CASE StartBreaks
  <2>1. /\ Busy("start") /\ at'["start"] = "idle" /\ UNCHANGED <<record, overlap>>
        /\ Fail({"start"}) /\ at'["main"] = at["main"]
    BY <1>3 DEF StartBreaks, Forgets, Busy
  <2>2. ASSUME ~overlap, ~untold' PROVE record'.title = title'
    <3>1. ~untold /\ title' = title /\ at["start"] # "saveTitle" BY <1>1, <2>1, <2>2
    <3>. QED BY <2>1, <2>2, <3>1, Undisturbed DEF KnowsTitle
  <2>3. faults' # 0 BY <1>1, <2>1
  <2>. QED BY <2>1, <2>2, <2>3, SoleStep
<1>4. CASE Crash
  <2>1. PICK a \in Actors : Busy(a) BY <1>4 DEF Crash, Busy
  <2>2. /\ \A b \in Actors : at'[b] = "idle" /\ UNCHANGED <<record, snap, overlap>> /\ Fail(Actors)
    BY <1>4 DEF Crash, EverybodyForgets
  <2>3. faults' # 0 BY <1>1, <2>2
  <2>4. ASSUME ~overlap, ~untold' PROVE record'.title = title'
    <3>1. ~untold /\ title' = title /\ at[a] # "saveTitle" BY <1>1, <2>2, <2>4
    <3>. QED BY <2>1, <2>2, <2>4, <3>1, Undisturbed DEF KnowsTitle
  <2>. QED BY <2>2, <2>3, <2>4 DEF ShownInv, Alone, TitleKept, Unharmed, QuietInv, Busy
<1>5. CASE BadResumeReturns
  <2>1. /\ Busy("main") /\ at["main"] = "turn" /\ bad["main"]
        /\ \A b \in Actors : at'[b] = "idle"
        /\ UNCHANGED <<disk, title, overlap, faults>> /\ (untold => untold')
    BY <1>5 DEF BadResumeReturns, EverybodyForgets, Busy
  <2>2. faults' # 0 BY <2>1 DEF ShownInv, Unharmed
  <2>3. ASSUME ~overlap, ~untold' PROVE record'.title = title'
    BY <2>1, <2>3, Undisturbed DEF KnowsTitle
  <2>. QED BY <2>1, <2>2, <2>3 DEF ShownInv, Alone, TitleKept, Unharmed, QuietInv, Busy
<1>. QED BY <1>2, <1>3, <1>4, <1>5

(* The launch, its hand-over, and the beginning of a resume.               *)
LEMMA BeginningShown ==
  ASSUME HeaderInv, HeaderInv', ShownInv, Launch \/ HandsOver \/ ResumeBegins
  PROVE  ShownInv'
<1>. USE DEF TypeOK
<1>. TypeOK BY DEF HeaderInv
<1>1. CASE Launch
  <2>1. record = NoRecord /\ \A a \in Actors : at[a] = "idle"
    BY <1>1 DEF Launch, HeaderInv, NotYetSent
  <2>2. /\ record' = [NoRecord EXCEPT !.run = 1] /\ copy'["main"] = record'
        /\ at'["main"] = "title" /\ then'["main"] = "launched" /\ at'["start"] = "idle"
        /\ UNCHANGED <<snap, telegram, turnVars, history>>
    BY <1>1, <2>1 DEF Launch
  <2>3. /\ record'.run = 1 /\ record'.mood = NewMood /\ record'.title = record.title
        /\ record' # NoRecord
    BY <2>1, <2>2 DEF NoRecord
  <2>4. snap = NewMood BY <2>1 DEF ShownInv, Unharmed
  <2>5. ~overlap /\ ~untold => record.title = title BY <2>1 DEF ShownInv, TitleKept, AtRest
  <2>6. Alone' /\ Unharmed' BY <2>2, <2>3 DEF ShownInv, Alone, Unharmed, Busy
  <2>7. TitleKept' BY <2>2, <2>3, <2>5 DEF TitleKept, KnowsTitle, AtRest, Busy
  <2>8. QuietInv' BY <2>2, <2>3, <2>4 DEF QuietInv, HasDrawn, AtRest, Busy, Redrawing, Heading
  <2>. QED BY <2>6, <2>7, <2>8 DEF ShownInv
<1>2. CASE HandsOver
  <2>1. /\ Busy("main") /\ at["main"] = "launched" /\ copy'["start"] = copy["main"]
        /\ at'["start"] = "turn" /\ at'["main"] = "idle" /\ then' = [then EXCEPT !["main"] = "idle"]
        /\ UNCHANGED <<disk, telegram, turnVars, history>>
    BY <1>2 DEF HandsOver, Busy
  <2>2. ~overlap /\ ~untold => KnowsTitle("main") BY <2>1, Undisturbed
  <2>3. ~overlap /\ faults = 0 => HasDrawn("main") BY <2>1, Undisturbed
  <2>4. record' # NoRecord BY <2>1 DEF HeaderInv, NotYetSent, Busy
  <2>5. Alone' /\ Unharmed' BY <2>1, <2>4 DEF ShownInv, Alone, Unharmed, Busy
  <2>6. TitleKept' BY <2>1, <2>2 DEF TitleKept, KnowsTitle, AtRest, Busy
  <2>7. ~overlap /\ faults = 0 => HasDrawn("start")'
    <3>1. ~overlap => at["start"] = "idle" BY <2>1 DEF ShownInv, Alone, Busy
    <3>2. then'["start"] = then["start"] BY <2>1
    <3>. QED BY <2>1, <2>3, <3>1, <3>2 DEF HasDrawn, Redrawing, Heading
  <2>8. QuietInv' BY <2>1, <2>7 DEF QuietInv, AtRest, Busy
  <2>. QED BY <2>5, <2>6, <2>8 DEF ShownInv
<1>3. CASE ResumeBegins
  <2>1. /\ at["main"] = "idle" /\ record # NoRecord /\ copy'["main"] = record
        /\ at'["main"] = "turn" /\ at'["start"] = at["start"] /\ how'["main"] = "resume"
        /\ overlap' = (overlap \/ at["start"] # "idle")
        /\ UNCHANGED <<disk, telegram, then, bad, untold, faults>>
    BY <1>3 DEF ResumeBegins
  <2>2. ~overlap' => ~overlap /\ AtRest
    <3>1. ~overlap' => ~overlap /\ at["start"] = "idle" BY Zenon, <2>1
    <3>. QED BY <2>1, <3>1 DEF AtRest
  <2>3. Unharmed' BY <2>1 DEF ShownInv, Unharmed
  <2>4. ~overlap' => at'["start"] = "idle" BY Zenon, <2>1
  <2>5. Alone' BY <2>4 DEF Alone, Busy
  <2>6. TitleKept' BY <2>1, <2>2, <2>4 DEF ShownInv, TitleKept, KnowsTitle, AtRest, Busy
  <2>7. ~overlap' /\ faults' = 0 => HasDrawn("main")'
    <3>1. ~overlap' /\ faults' = 0 => HasShown BY <2>1, <2>2 DEF ShownInv, QuietInv
    <3>. QED BY <2>1, <3>1 DEF HasShown, HasDrawn, Redrawing, Heading
  <2>8. QuietInv' BY <2>1, <2>4, <2>7 DEF QuietInv, AtRest, Busy
  <2>. QED BY <2>3, <2>5, <2>6, <2>8 DEF ShownInv
<1>. QED BY <1>1, <1>2, <1>3

LEMMA InitShownInv == Init => ShownInv
BY DEF Init, ShownInv, Alone, TitleKept, Unharmed, QuietInv, Busy, NoRecord, AtRest

LEMMA StepShownInv == HeaderInv /\ HeaderInv' /\ ShownInv /\ [Next]_vars => ShownInv'
<1>. SUFFICES ASSUME HeaderInv, HeaderInv', ShownInv, [Next]_vars PROVE ShownInv' OBVIOUS
<1>1. CASE Launch \/ HandsOver \/ ResumeBegins BY <1>1, BeginningShown
<1>2. ASSUME NEW a \in Actors, Redraw(a) PROVE ShownInv' BY <1>2, RedrawShown
<1>3. ASSUME NEW a \in Actors, TurnEnds(a) \/ TurnFails(a) PROVE ShownInv' BY <1>3, TurnShown
<1>4. ASSUME NEW a \in Actors,
             \/ \E kind \in Kinds, third \in BOOLEAN : Project(a, kind, third)
             \/ NothingMore(a) \/ Clear(a) \/ Ignores(a) \/ Replies(a) \/ Delivered(a)
             \/ \E support \in {"ask_human", "escalated"} : LeavesToHuman(a, support)
      PROVE  ShownInv'
  BY <1>4, DeliveryShown
<1>5. CASE (\E a \in Actors : StreamBreaks(a)) \/ StartBreaks \/ Crash \/ BadResumeReturns
  BY <1>5, FailureShown
<1>6. CASE UNCHANGED vars
  BY <1>6 DEF ShownInv, Alone, TitleKept, KnowsTitle, Unharmed, QuietInv, HasDrawn, HasShown, Busy,
    AtRest, Redrawing, Heading
<1>. QED BY <1>1, <1>2, <1>3, <1>4, <1>5, <1>6 DEF Next

(* The sole actor's knowledge of the title and of the cards holds          *)
(* throughout (upsertSessionHeaderCard, syncSessionTopicTitle).            *)
THEOREM ShownInvariance == Spec => []ShownInv
<1>. QED BY InitShownInv, StepShownInv, HeaderInvariance, PTL DEF Spec

(* The title on record is Telegram's, as long as the copies of two actors  *)
(* were not at odds and no save after an edit was lost: whatever failed    *)
(* besides (syncSessionTopicTitle).                                        *)
THEOREM KnowsItsTitle == Spec => []TitleIsKnown
<1>1. ShownInv => TitleIsKnown BY DEF ShownInv, TitleKept, TitleIsKnown
<1>. QED BY <1>1, ShownInvariance, PTL

(* A session that rests shows whether a human is needed: every save of a   *)
(* decision is followed by its redraw, and the save of a stale snapshot    *)
(* after a reply does not reach what is shown (applySupportDecision,       *)
(* projectSessionEvent, maybeAutoReplyForEvent).                           *)
THEOREM ShowsAttention == Spec => []AttentionIsShown
<1>1. TypeOK /\ ShownInv => AttentionIsShown
  <2>. SUFFICES ASSUME HasShown, record.mood \in Moods
                PROVE  /\ header.human = Human(record.mood)
                       /\ Human(record.mood) => listed
                       /\ title \in {"blocked", "question"} => Human(record.mood)
                       /\ Human(record.mood) /\ ~record.mood.failed =>
                            /\ record.mood.blocker => title = "blocked"
                            /\ ~record.mood.blocker /\ record.mood.question => title = "question"
    BY DEF TypeOK, Records, ShownInv, QuietInv, AttentionIsShown
  <2>1. header.human = Human(record.mood)
    <3>1. PICK label \in Labels(record.mood, runs[record.run]) :
            header = [state |-> label, support |-> record.mood.support,
                      human |-> Human(record.mood)]
      BY DEF HasShown, Faces
    <3>. QED BY Zenon, <3>1
  <2>. QED BY <2>1 DEF HasShown, Titles, Lists
<1>2. HeaderInv => TypeOK BY DEF HeaderInv
<1>. QED BY <1>1, <1>2, ShownInvariance, HeaderInvariance, PTL

(* A header card says of a session that rests what its record says, but    *)
(* for "running" where the run is over, and the session is listed unless   *)
(* it failed once and works again (upsertSessionHeaderCard,                *)
(* displaySession, generalControlCardIsActive).                            *)
THEOREM ShowsTheTruth == Spec => []CardsAreTrue
<1>1. TypeOK /\ ShownInv => CardsAreTrue
  <2>. DEFINE now == Card(record.mood, record.run)
  <2>. SUFFICES ASSUME HasShown, record.mood \in Moods
                PROVE  /\ \/ header = now
                          \/ now.state = "idle" /\ header = [now EXCEPT !.state = "running"]
                       /\ listed \/ (record.mood.failed /\ outcome = "delivered")
    BY DEF TypeOK, Records, ShownInv, QuietInv, CardsAreTrue
  <2>1. PICK label \in Labels(record.mood, runs[record.run]) :
          header = [state |-> label, support |-> record.mood.support, human |-> Human(record.mood)]
    BY DEF HasShown, Faces
  <2>2. label = now.state \/ (now.state = "idle" /\ label = "running")
    BY <2>1 DEF Labels, Card, Label, Waits, Moods
  <2>3. header = now \/ (now.state = "idle" /\ header = [now EXCEPT !.state = "running"])
    BY <2>1, <2>2 DEF Card
  <2>. QED BY <2>3 DEF HasShown, Lists
<1>2. HeaderInv => TypeOK BY DEF HeaderInv
<1>. QED BY <1>1, <1>2, ShownInvariance, HeaderInvariance, PTL
=============================================================================
