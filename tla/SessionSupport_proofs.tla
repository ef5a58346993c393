------------------------ MODULE SessionSupport_proofs ------------------------
(***************************************************************************)
(* The safety properties of SessionSupport for every set of texts, every   *)
(* classification of them and every bound.  The inductive invariant IInv   *)
(* follows the two things a turn can lose: the count of the replies spent  *)
(* (Counted) and the request for a human (OpenIsFlagged, Together, and     *)
(* RetiredInv for a session whose topic turned out to be gone).            *)
(***************************************************************************)
EXTENDS SessionSupport, TLAPS

USE KindsAreEventTypes, NoTextIsNoText, RiskyAreTexts, ChoiceAreTexts, BoundsAreNatural
USE DEF vars, files, turn, config

-----------------------------------------------------------------------------
(* What the operators of SessionSnapshot do.                               *)

(* The recent events stay one or two texts.                                *)
LEMMA AddRecentType == ASSUME NEW r \in Recent, NEW t \in Texts PROVE AddRecent(r, t) \in Recent
<1>1. CASE r = <<>> BY <1>1 DEF AddRecent, Recent
<1>2. ASSUME NEW u \in Texts, r = <<u>> PROVE AddRecent(r, t) \in Recent
  <2>1. Len(r) = 1 /\ r[1] = u BY <1>2
  <2>2. AddRecent(r, t) = <<u, t>> BY <2>1, <1>2 DEF AddRecent
  <2>. QED BY <2>2 DEF Recent
<1>3. ASSUME NEW u \in Texts, NEW v \in Texts, r = <<u, v>> PROVE AddRecent(r, t) \in Recent
  <2>1. Len(r) = 2 /\ r[2] = v BY <1>3
  <2>2. AddRecent(r, t) = <<v, t>> BY <2>1, <1>3 DEF AddRecent
  <2>. QED BY <2>2 DEF Recent
<1>4. r = <<>> \/ (\E u \in Texts : r = <<u>>) \/ (\E u, v \in Texts : r = <<u, v>>)
  BY DEF Recent
<1>. QED BY <1>1, <1>2, <1>3, <1>4

(* An event keeps the human flag, and takes attempts away only as progress. *)
LEMMA ApplyType ==
  ASSUME NEW s \in Snapshots, NEW t \in Texts
  PROVE  /\ Apply(s, t) \in Snapshots
         /\ Apply(s, t).human = s.human
         /\ Progress(t) \/ Apply(s, t).attempts >= s.attempts
<1>1. AddRecent(s.recent, t) \in Recent BY AddRecentType DEF Snapshots
<1>. DEFINE n == IF Kind[t] = "blocked" THEN s.attempts + 1
                 ELSE IF Kind[t] \in ProgressTypes \cup {"blocker_resolved"} THEN 0 ELSE s.attempts
            q == IF Kind[t] \in {"question", "approval_needed"} THEN t ELSE s.question
            b == IF Kind[t] = "blocked" THEN t
                 ELSE IF Kind[t] = "blocker_resolved" THEN NoText ELSE s.blocker
            r == AddRecent(s.recent, t)
<1>a. Apply(s, t) = [s EXCEPT !.attempts = n, !.question = q, !.blocker = b, !.recent = r]
  BY DEF Apply
<1>b. n \in Nat /\ q \in Texts \cup {NoText} /\ b \in Texts \cup {NoText} /\ r \in Recent
  BY <1>1 DEF Snapshots
<1>2. Apply(s, t) \in Snapshots
  <2>. HIDE DEF n, q, b, r
  <2>. QED BY <1>a, <1>b DEF Snapshots
<1>. QED BY <1>2 DEF Apply, Snapshots, Progress

(* A decision changes the support state and the human flag, no count.      *)
LEMMA DecisionType ==
  ASSUME NEW s \in Snapshots, NEW state \in SupportStates, NEW human \in BOOLEAN
  PROVE  /\ ApplySupportDecision(s, state, human) \in Snapshots
         /\ ApplySupportDecision(s, state, human).attempts = s.attempts
         /\ ApplySupportDecision(s, state, human).human <=> human \/ state \in {"ask_human", "escalated"}
BY DEF ApplySupportDecision, Snapshots

(* The fallback decision changes no count either.                          *)
LEMMA FallbackType ==
  ASSUME NEW s \in Snapshots, NEW t \in Texts
  PROVE  /\ FallbackState[Kind[t]] \in SupportStates
         /\ ApplySupportFallback(s, t) \in Snapshots
         /\ ApplySupportFallback(s, t).attempts = s.attempts
<1>1. FallbackState[Kind[t]] \in SupportStates BY DEF FallbackState, SupportStates, EventTypes
<1>. QED BY <1>1, DecisionType DEF ApplySupportFallback

(* So a projection takes attempts away only as progress.                   *)
LEMMA ProjectedType ==
  ASSUME snap \in Snapshots, NEW t \in Texts
  PROVE  /\ Projected(t) \in Snapshots
         /\ Progress(t) \/ Projected(t).attempts >= snap.attempts
BY ApplyType, FallbackType DEF Projected

(* Without a policy an actionable event flags a human, and only an event that *)
(* resolves the matter takes the flag away.                                *)
LEMMA ProjectedFlag ==
  ASSUME snap \in Snapshots, NEW t \in Texts, ~policy,
         Actionable(t) \/ (snap.human /\ Kind[t] \notin {"blocker_resolved", "done"})
  PROVE  Projected(t).human
<1>. DEFINE s == Apply(snap, t)
<1>1. s \in Snapshots /\ s.human = snap.human BY ApplyType
<1>2. Kind[t] \in EventTypes OBVIOUS
<1>3. CASE Kind[t] \in ActionableTypes \cup {"failed"}
  <2>1. Falls(t) BY <1>3 DEF Falls, ActionableTypes
  <2>2. FallbackState[Kind[t]] \in {"ask_human", "escalated"}
    <3>1. Kind[t] \in {"question", "blocked", "approval_needed", "failed"} BY <1>3 DEF ActionableTypes
    <3>. QED BY <1>2, <3>1 DEF FallbackState
  <2>3. Projected(t) = ApplySupportDecision(s, FallbackState[Kind[t]], FallbackState[Kind[t]] # "idle")
    BY <1>3, <2>1 DEF Projected, ApplySupportFallback
  <2>. QED BY <1>1, <2>2, <2>3 DEF ApplySupportDecision, Snapshots
<1>4. CASE Kind[t] \notin ActionableTypes \cup {"failed"}
  <2>1. ~Falls(t) BY <1>4 DEF Falls, ActionableTypes, Actionable
  <2>. QED BY <1>1, <1>4, <2>1 DEF Projected, Actionable
<1>. QED BY <1>3, <1>4

(* Retiring a session flags a human and changes no count.                  *)
LEMMA RetiredType ==
  ASSUME NEW s \in Snapshots
  PROVE  /\ Retired(s) \in Snapshots
         /\ Retired(s).attempts = s.attempts /\ Retired(s).human
<1>. DEFINE u == [s EXCEPT !.blocker = NoText]
<1>1. u \in Snapshots /\ u.attempts = s.attempts BY DEF Snapshots
<1>2. Retired(s) = ApplySupportDecision(u, "escalated", TRUE) BY DEF Retired
<1>3. "escalated" \in SupportStates BY DEF SupportStates
<1>. HIDE DEF u
<1>4. /\ ApplySupportDecision(u, "escalated", TRUE) \in Snapshots
      /\ ApplySupportDecision(u, "escalated", TRUE).attempts = u.attempts
      /\ ApplySupportDecision(u, "escalated", TRUE).human
  BY <1>1, <1>3, DecisionType
<1>. QED BY <1>1, <1>2, <1>4

(* The record drawn from a snapshot has its count and its flag.            *)
LEMMA RecordType ==
  ASSUME NEW s \in Snapshots
  PROVE  /\ ApplySnapshot(s) \in Records
         /\ ApplySnapshot(s).attempts = s.attempts /\ ApplySnapshot(s).human = s.human
BY DEF ApplySnapshot, Snapshots, Records

(* A new snapshot counts nothing and asks for nobody.                      *)
LEMMA NewType == NewSnapshot \in Snapshots /\ NewSnapshot.attempts = 0 /\ ~NewSnapshot.human
BY DEF NewSnapshot, Snapshots, Recent, SupportStates

-----------------------------------------------------------------------------
(* The inductive invariant.                                                *)

(* The type invariant but for where the topic is.                          *)
CoreTypes ==
  /\ policy \in BOOLEAN /\ streamed \in BOOLEAN
  /\ snap \in Snapshots /\ loaded \in Snapshots
  /\ record \in Records /\ session \in Records
  /\ at \in {"idle", "turn", "deliver", "decide"}
  /\ how \in {"start", "resume", "reply"}
  /\ said \in Seq(Texts) /\ Len(said) <= MaxEvents
  /\ queue \in Seq(Texts) /\ Len(queue) <= MaxEvents
  /\ badStream \in BOOLEAN
  /\ outcome \in {"none", "owed", "left", "resolved", "broken"}
  /\ decided \in SupportStates
  /\ spent \in Nat
  /\ torn \in BOOLEAN
  /\ faults \in 0 .. MaxFaults

(* Between turns nothing of a turn is left; only a policy replies; what is *)
(* decided on was streamed without an error, or never streamed; the queue  *)
(* is the rest of what was said.                                           *)
Flow ==
  /\ at = "idle" => how = "resume" /\ said = <<>> /\ queue = <<>>
  /\ how = "reply" => policy
  /\ at # "turn" \/ how = "reply" => ~badStream
  /\ at = "deliver" =>
       /\ Len(queue) <= Len(said)
       /\ \A i \in 1 .. Len(queue) : queue[i] = said[Len(said) - Len(queue) + i]
  /\ at = "decide" => queue = <<>>

(* A reply is spent when its turn begins and counted when the turn ends.   *)
Pending == IF at = "turn" /\ how = "reply" THEN 1 ELSE 0

(* Every copy of the attempt count has all the replies spent, but for the  *)
(* one under way and one for every failure.                                *)
Counted ==
  /\ spent <= snap.attempts + faults + Pending
  /\ spent <= record.attempts + faults + Pending
  /\ spent <= session.attempts + faults + Pending

(* Without a policy: as long as every projection was saved, a human is     *)
(* asked for whenever an actionable event among those projected is open.   *)
ProjectedEvents ==
  IF at \in {"deliver", "decide"} THEN Len(said) - Len(queue) ELSE IF Streaming THEN Len(said) ELSE 0

OpenAmong(n) ==
  \E i \in 1 .. n :
    /\ Actionable(said[i])
    /\ \A j \in i + 1 .. n : Kind[said[j]] \notin {"blocker_resolved", "done"}

OpenIsFlagged ==
  ~policy /\ at # "idle" /\ ~badStream /\ OpenAmong(ProjectedEvents)
    => snap.human /\ record.human /\ session.human

(* While no save has failed, the record asks for a human only if the       *)
(* snapshot does, and the handler's copy is the record.  A session retired *)
(* by the decision to reply is an exception: the snapshot of before is     *)
(* written back after the reply.                                           *)
Together ==
  /\ how = "reply" /\ at = "turn" /\ routed => ~session.human
  /\ ~torn => (record.human /\ routed => snap.human) /\ (at # "idle" => session = record)

(* A retired session asks for a human wherever it says so, but while an    *)
(* automatic reply is under way and none of its events is shown yet, and   *)
(* in a stream that an error has ended.                                    *)
Flagged == snap.human /\ record.human /\ session.human
RetiredInv ==
  ~routed =>
    /\ gone
    /\ at = "decide" => Flagged
    /\ at = "deliver" /\ (how # "reply" \/ Len(queue) < Len(said)) => Flagged
    /\ at = "turn" /\ how # "reply" /\ ~badStream => Flagged

-----------------------------------------------------------------------------
(* What the steps do, in the terms of the invariant.                       *)

(* The numbers that are compared.                                          *)
LEMMA Numbers ==
  ASSUME TypeOK
  PROVE  /\ spent \in Nat /\ faults \in Nat
         /\ snap.attempts \in Nat /\ record.attempts \in Nat /\ session.attempts \in Nat
BY DEF TypeOK, Snapshots, Records

(* A reply is pending exactly during its turn.                             *)
LEMMA PendingIs ==
  /\ at # "turn" \/ how # "reply" => Pending = 0
  /\ at = "turn" /\ how = "reply" => Pending = 1
BY DEF Pending

(* A fault is counted, within the bound.                                   *)
LEMMA FaultEffect ==
  ASSUME TypeOK, Fault PROVE faults' \in 0 .. MaxFaults /\ faults' = faults + 1
BY DEF TypeOK, Fault

(* No events are events.                                                   *)
LEMMA EmptyType == <<>> \in Seq(Texts) /\ Len(<<>>) <= MaxEvents
OBVIOUS

(* A save of a snapshot and of the record drawn from it, shown in the      *)
(* topic or in vain.                                                       *)
LEMMA SaveEffect ==
  ASSUME TypeOK, NEW new \in Snapshots, SaveAndShow(new) \/ SaveFails(new)
  PROVE  /\ session' \in Records /\ session'.attempts = new.attempts
         /\ snap' \in Snapshots /\ snap'.attempts \in {snap.attempts, new.attempts}
         /\ record' \in Records
         /\ torn' \in BOOLEAN /\ faults' \in 0 .. MaxFaults
         /\ \/ /\ SaveAndShow(new) /\ ~torn' /\ faults' = faults
               /\ record' = session' /\ snap'.attempts = new.attempts
               /\ snap'.human = session'.human
               /\ gone => session'.human /\ ~routed'
               /\ ~gone => session'.human = new.human /\ routed' = routed
            \/ /\ SaveFails(new) /\ faults' = faults + 1
               /\ record'.attempts \in {record.attempts, new.attempts}
               /\ ~torn' => record' = session' /\ snap'.human = session'.human
<1>. DEFINE old == Retired(new)
<1>1. old \in Snapshots /\ old.attempts = new.attempts /\ old.human BY RetiredType
<1>2. /\ ApplySnapshot(new) \in Records /\ ApplySnapshot(new).attempts = new.attempts
      /\ ApplySnapshot(new).human = new.human
      /\ ApplySnapshot(old) \in Records /\ ApplySnapshot(old).attempts = new.attempts
      /\ ApplySnapshot(old).human
  BY <1>1, RecordType
<1>3. TypeOK /\ snap \in Snapshots /\ record \in Records /\ faults \in 0 .. MaxFaults
  BY DEF TypeOK
<1>4. CASE SaveAndShow(new)
  <2>1. CASE gone
    <3>1. /\ session' = ApplySnapshot(old) /\ snap' = old /\ record' = ApplySnapshot(old)
          /\ torn' = FALSE /\ faults' = faults /\ routed' = FALSE
      BY <1>4, <2>1 DEF SaveAndShow, Retires, SaveBoth
    <3>. HIDE DEF old
    <3>. QED BY <1>1, <1>2, <1>3, <1>4, <2>1, <3>1
  <2>2. CASE ~gone
    <3>1. /\ session' = ApplySnapshot(new) /\ snap' = new /\ record' = ApplySnapshot(new)
          /\ torn' = FALSE /\ faults' = faults /\ routed' = routed
      BY <1>4, <2>2 DEF SaveAndShow, SaveBoth
    <3>. QED BY <1>2, <1>3, <1>4, <2>2, <3>1
  <2>. QED BY <2>1, <2>2
<1>5. CASE SaveFails(new)
  <2>1. Fault
        /\ \/ session' = ApplySnapshot(new) /\ snap' \in {snap, new} /\ torn' = TRUE
              /\ record' = record
           \/ session' = ApplySnapshot(new) /\ snap' = new /\ record' = ApplySnapshot(new)
              /\ torn' = FALSE
           \/ session' = ApplySnapshot(old) /\ snap' \in {new, old} /\ torn' = TRUE
              /\ record' = ApplySnapshot(new)
           \/ session' = ApplySnapshot(old) /\ snap' = old /\ torn' = FALSE
              /\ record' = ApplySnapshot(old)
    BY <1>5 DEF SaveFails, RetireFails
  <2>2. faults' \in 0 .. MaxFaults /\ faults' = faults + 1 BY <1>3, <2>1, FaultEffect
  <2>. HIDE DEF old
  <2>3. session' \in Records /\ session'.attempts = new.attempts BY <1>2, <2>1
  <2>4. snap' \in Snapshots /\ snap'.attempts \in {snap.attempts, new.attempts}
    BY <1>1, <1>3, <2>1
  <2>5. record' \in Records /\ record'.attempts \in {record.attempts, new.attempts}
    BY <1>2, <1>3, <2>1
  <2>6. torn' \in BOOLEAN BY <2>1
  <2>7. ApplySnapshot(old).human = old.human BY <1>1, RecordType
  <2>8. ~torn' => record' = session' /\ snap'.human = session'.human BY <1>2, <2>1, <2>7
  <2>. QED BY <1>5, <2>2, <2>3, <2>4, <2>5, <2>6, <2>8
<1>. QED BY <1>4, <1>5

(* Retiring the session with the snapshot that is saved.                   *)
LEMMA RetireEffect ==
  ASSUME TypeOK, Retires(snap) \/ RetireFails(snap, record)
  PROVE  /\ session' \in Records /\ session'.attempts = snap.attempts
         /\ snap' \in Snapshots /\ snap'.attempts = snap.attempts
         /\ record' \in Records /\ record'.attempts \in {record.attempts, snap.attempts}
         /\ torn' \in BOOLEAN /\ faults' \in 0 .. MaxFaults
         /\ faults' \in {faults, faults + 1}
         /\ torn' \/ ~routed'
         /\ Retires(snap) => snap'.human /\ record'.human /\ session'.human
         /\ Retires(snap) => record' = session' /\ ~torn'
<1>. DEFINE old == Retired(snap)
<1>1. snap \in Snapshots /\ record \in Records /\ faults \in 0 .. MaxFaults BY DEF TypeOK
<1>2. old \in Snapshots /\ old.attempts = snap.attempts /\ old.human BY <1>1, RetiredType
<1>3. /\ ApplySnapshot(old) \in Records /\ ApplySnapshot(old).attempts = snap.attempts
      /\ ApplySnapshot(old).human
  BY <1>2, RecordType
<1>4. CASE Retires(snap)
  <2>1. /\ session' = ApplySnapshot(old) /\ snap' = old /\ record' = ApplySnapshot(old)
        /\ torn' = FALSE /\ faults' = faults /\ routed' = FALSE
    BY <1>4 DEF Retires, SaveBoth
  <2>. HIDE DEF old
  <2>. QED BY <1>1, <1>2, <1>3, <1>4, <2>1
<1>5. CASE RetireFails(snap, record) /\ ~Retires(snap)
  <2>1. Fault /\ session' = ApplySnapshot(old) /\ snap' \in {snap, old}
        /\ \/ record' = record /\ torn' = TRUE
           \/ record' = ApplySnapshot(old) /\ torn' = FALSE /\ routed' = FALSE
    BY <1>5 DEF RetireFails
  <2>2. faults' \in 0 .. MaxFaults /\ faults' = faults + 1 BY <2>1, FaultEffect
  <2>. HIDE DEF old
  <2>. QED BY <1>1, <1>2, <1>3, <1>5, <2>1, <2>2
<1>. QED BY <1>4, <1>5

(* What was saved and shown is the same everywhere; it asks for a human if *)
(* the topic is gone, and otherwise if it was to.                          *)
LEMMA ShownEffect ==
  ASSUME TypeOK, NEW new \in Snapshots, SaveAndShow(new)
  PROVE  /\ ~torn' /\ record' = session' /\ snap'.human = session'.human
         /\ gone => session'.human /\ ~routed'
         /\ ~gone => session'.human = new.human /\ routed' = routed
         /\ new.human => snap'.human /\ record'.human /\ session'.human
<1>1. new.human \in BOOLEAN BY DEF Snapshots
<1>2. CASE gone
  <2>1. session' = ApplySnapshot(Retired(new)) /\ snap' = Retired(new)
        /\ record' = ApplySnapshot(Retired(new)) /\ torn' = FALSE /\ routed' = FALSE
    BY <1>2 DEF SaveAndShow, Retires, SaveBoth
  <2>2. Retired(new).human /\ ApplySnapshot(Retired(new)).human = Retired(new).human
    BY RetiredType, RecordType
  <2>. QED BY <1>2, <2>1, <2>2
<1>3. CASE ~gone
  <2>1. session' = ApplySnapshot(new) /\ snap' = new /\ record' = ApplySnapshot(new)
        /\ torn' = FALSE /\ routed' = routed
    BY <1>3 DEF SaveAndShow, SaveBoth
  <2>2. ApplySnapshot(new).human = new.human BY RecordType
  <2>. QED BY <1>1, <1>3, <2>1, <2>2
<1>. QED BY <1>2, <1>3

(* A failed save is a fault; the topic is given up only if it is gone.     *)
LEMMA FailsEffect ==
  ASSUME NEW new, SaveFails(new)
  PROVE  Fault /\ (routed' = routed \/ gone)
BY DEF SaveFails, RetireFails

(* The end of a delivery.                                                  *)
LEMMA EndsEffect ==
  ASSUME NEW result, Ends(result)
  PROVE  /\ at' = "idle" /\ outcome' = result /\ how' = "resume"
         /\ said' = <<>> /\ queue' = <<>> /\ said' \in Seq(Texts) /\ Len(said') <= MaxEvents
         /\ badStream' = FALSE /\ loaded' \in Snapshots
BY NewType DEF Ends

(* Of a save that ends a delivery: it fails only together with the save.   *)
LEMMA SaveAndEndEffect ==
  ASSUME NEW new \in Snapshots, NEW result, SaveAndEnd(new, result)
  PROVE  /\ SaveAndShow(new) \/ SaveFails(new)
         /\ (SaveAndShow(new) /\ Ends(result)) \/ Ends("broken")
BY DEF SaveAndEnd

(* Deliveries that end with something for a human.                         *)
Owes == TurnFails \/ \E t \in Texts : AsksHuman(t) \/ Escalates(t) \/ PassesToHuman(t)

(* A delivery that ends with something for a human saves a snapshot that   *)
(* says so and counts no less than was counted.                            *)
LEMMA OwesEffect ==
  ASSUME TypeOK, Flow, Counted, Owes
  PROVE  /\ \E new \in Snapshots : /\ new.human /\ spent <= new.attempts + faults
                                   /\ SaveAndEnd(new, "owed")
         /\ decided' \in SupportStates
         /\ UNCHANGED <<policy, streamed, gone, spent>>
<1>1. CASE TurnFails
  <2>. DEFINE n == CASE how = "start"  -> snap.attempts
                     [] how = "resume" -> session.attempts
                     [] how = "reply"  -> session.attempts + 1
              s == [snap EXCEPT !.attempts = n, !.blocker = NoText]
  <2>1. n \in Nat /\ spent <= n + faults
    <3>1. at = "turn" /\ how \in {"start", "resume", "reply"} BY <1>1 DEF TurnFails, TypeOK
    <3>2. CASE how = "start" BY <3>1, <3>2, Numbers, PendingIs DEF Counted
    <3>3. CASE how = "resume" BY <3>1, <3>3, Numbers, PendingIs DEF Counted
    <3>4. CASE how = "reply" BY <3>1, <3>4, Numbers, PendingIs DEF Counted
    <3>. QED BY <3>1, <3>2, <3>3, <3>4
  <2>2. s \in Snapshots /\ s.attempts = n
    <3>. HIDE DEF n
    <3>. QED BY <2>1 DEF Snapshots, TypeOK
  <2>3. FailedTurn = ApplySupportDecision(s, "escalated", TRUE) BY DEF FailedTurn
  <2>4. FailedTurn \in Snapshots /\ FailedTurn.attempts = n /\ FailedTurn.human
    BY <2>2, <2>3, DecisionType DEF SupportStates
  <2>. QED BY <1>1, <2>1, <2>4 DEF TurnFails, SupportStates, config
<1>2. ASSUME NEW st \in {"ask_human", "escalated"}, at = "decide",
             SaveAndEnd(ApplySupportDecision(snap, st, TRUE), "owed")
      PROVE  \E new \in Snapshots : /\ new.human /\ spent <= new.attempts + faults
                                    /\ SaveAndEnd(new, "owed")
  <2>. DEFINE new == ApplySupportDecision(snap, st, TRUE)
  <2>1. new \in Snapshots /\ new.attempts = snap.attempts /\ new.human
    BY DecisionType DEF TypeOK, SupportStates
  <2>2. Pending = 0 BY <1>2, PendingIs
  <2>3. spent <= snap.attempts + faults BY <2>2, Numbers DEF Counted
  <2>4. spent <= new.attempts + faults BY <2>1, <2>3
  <2>. QED BY <1>2, <2>1, <2>4
<1>3. ASSUME NEW t \in Texts, AsksHuman(t) \/ Escalates(t) \/ PassesToHuman(t)
      PROVE  /\ at = "decide" /\ decided' \in {"ask_human", "escalated"}
             /\ SaveAndEnd(ApplySupportDecision(snap, "ask_human", TRUE), "owed")
                \/ SaveAndEnd(ApplySupportDecision(snap, "escalated", TRUE), "owed")
             /\ UNCHANGED <<policy, streamed, gone, spent>>
  BY <1>3 DEF AsksHuman, Escalates, PassesToHuman, Consults, PolicyDecides, DecidesOn, Decided, config
<1>4. ASSUME NEW t \in Texts, AsksHuman(t) \/ Escalates(t) \/ PassesToHuman(t)
      PROVE  /\ \E new \in Snapshots : /\ new.human /\ spent <= new.attempts + faults
                                       /\ SaveAndEnd(new, "owed")
             /\ decided' \in SupportStates
             /\ UNCHANGED <<policy, streamed, gone, spent>>
  BY <1>2, <1>3, <1>4 DEF SupportStates
<1>. QED BY <1>1, <1>4 DEF Owes

(* Clearing a request saves a snapshot without one, or nothing.            *)
LEMMA ClearEffect ==
  ASSUME TypeOK, Clear
  PROVE  /\ at = "decide" /\ decided' \in SupportStates /\ UNCHANGED <<policy, streamed, gone, spent>>
         /\ \/ /\ Resolved(session) \/ Resolved(snap)
               /\ Ends("resolved") /\ UNCHANGED <<snap, record, routed, session, torn, faults>>
            \/ \E new \in Snapshots : /\ ~new.human /\ new.attempts = snap.attempts
                                      /\ SaveAndEnd(new, "resolved")
<1>. DEFINE new == ApplySupportDecision(snap, "idle", FALSE)
<1>1. new \in Snapshots /\ new.attempts = snap.attempts /\ ~new.human
  BY DecisionType DEF TypeOK, SupportStates
<1>2. at = "decide" /\ UNCHANGED <<policy, streamed, gone, spent>>
  BY DEF Clear, NothingActionable, config
<1>3. CASE ~Resolved(session) /\ ~Resolved(snap)
  BY <1>1, <1>2, <1>3 DEF Clear, Decided, SupportStates
<1>4. CASE Resolved(session) \/ Resolved(snap)
  BY <1>2, <1>4 DEF Clear, TypeOK, files
<1>. QED BY <1>3, <1>4

(* Support buys a turn: saved, or given up.                                *)
LEMMA RepliesEffect ==
  ASSUME TypeOK, NEW t \in Texts, Replies(t)
  PROVE  /\ at = "decide" /\ policy /\ snap.attempts < MaxAutoReplies
         /\ UNCHANGED <<policy, streamed, gone>>
         /\ \E new \in Snapshots :
              /\ ~new.human /\ new.attempts = snap.attempts
              /\ \/ /\ SaveAndShow(new)
                    /\ loaded' = snap /\ at' = "turn" /\ how' = "reply" /\ said' = <<>>
                    /\ decided' \in {"replied", "escalated"} /\ spent' \in {spent, spent + 1}
                    /\ UNCHANGED <<queue, badStream, outcome>>
                 \/ SaveFails(new) /\ Ends("broken") /\ UNCHANGED <<decided, spent>>
<1>. DEFINE new == ApplySupportDecision(snap, "replied", FALSE)
<1>1. new \in Snapshots /\ new.attempts = snap.attempts /\ ~new.human
  BY DecisionType DEF TypeOK, SupportStates
<1>2. at = "decide" /\ policy /\ snap.attempts < MaxAutoReplies
      /\ UNCHANGED <<policy, streamed, gone>>
  BY DEF Replies, Consults, PolicyDecides, DecidesOn, config
<1>3. \/ /\ SaveAndShow(new)
         /\ loaded' = snap /\ at' = "turn" /\ how' = "reply" /\ said' = <<>>
         /\ decided' \in {"replied", "escalated"} /\ spent' \in {spent, spent + 1}
         /\ UNCHANGED <<queue, badStream, outcome>>
      \/ SaveFails(new) /\ Ends("broken") /\ UNCHANGED <<decided, spent>>
  BY DEF Replies, Decided
<1>. HIDE DEF new
<1>. QED BY <1>1, <1>2, <1>3

(* An event is projected and saved, or that fails.                         *)
LEMMA ProjectEffect ==
  ASSUME TypeOK, NEW t \in Texts, ProjectHistory(t),
         SaveAndShow(Projected(t)) \/ SaveFails(Projected(t)), Counted, Pending = 0
  PROVE  /\ decided' \in SupportStates /\ spent' \in Nat
         /\ spent' <= snap'.attempts + faults' /\ spent' <= record'.attempts + faults'
         /\ spent' <= session'.attempts + faults'
<1>1. decided' \in SupportStates
  BY FallbackType DEF ProjectHistory, Decided, TypeOK, SupportStates
<1>2. Projected(t) \in Snapshots /\ (Progress(t) \/ Projected(t).attempts >= snap.attempts)
  BY ProjectedType DEF TypeOK
<1>3. spent' \in Nat /\ (Progress(t) => spent' = 0) /\ (~Progress(t) => spent' = spent)
  BY DEF ProjectHistory, TypeOK
<1>4. spent <= snap.attempts + faults /\ spent <= record.attempts + faults BY Numbers DEF Counted
<1>5. spent' <= Projected(t).attempts + faults
      /\ spent' <= snap.attempts + faults /\ spent' <= record.attempts + faults
  <2>1. Projected(t).attempts \in Nat BY <1>2 DEF Snapshots
  <2>2. CASE Progress(t) BY <1>3, <2>1, <2>2, Numbers
  <2>3. CASE ~Progress(t) BY <1>2, <1>3, <1>4, <2>1, <2>3, Numbers
  <2>. QED BY <2>2, <2>3
<1>6. Projected(t).attempts \in Nat BY <1>2 DEF Snapshots
<1>7. /\ session'.attempts = Projected(t).attempts
      /\ snap'.attempts \in {snap.attempts, Projected(t).attempts}
      /\ record'.attempts \in {record.attempts, Projected(t).attempts}
      /\ faults' \in {faults, faults + 1}
  BY <1>2, SaveEffect
<1>. QED BY <1>1, <1>3, <1>5, <1>6, <1>7, Numbers

(* Deliveries that end without a save.                                     *)
Leaves == ResumeStreamWasBad \/ NothingMore \/ \E t \in Texts : NoPolicy(t) \/ Ignores(t)

(* A delivery that ends without a save; what is owed was flagged before.   *)
LEMMA LeavesEffect ==
  ASSUME Leaves
  PROVE  /\ UNCHANGED <<policy, streamed, files, session, gone, decided, spent, torn, faults>>
         /\ at = "decide" \/ (how = "resume" /\ Ends("broken"))
         /\ \/ Ends("left") \/ Ends("broken")
            \/ Ends("owed") /\ at = "decide" /\ ~policy /\ OpenWithoutPolicy
BY DEF Leaves, ResumeStreamWasBad, NothingMore, NothingActionable, NoPolicy, Ignores, PolicyDecides,
       DecidesOn, files, config

(* The reply is counted, or the count is lost with a fault.                *)
LEMMA ReplyEffect ==
  ASSUME TypeOK, ReplyEnds
  PROVE  /\ at = "turn" /\ how = "reply" /\ UNCHANGED <<policy, streamed, routed, gone, decided, spent>>
         /\ session' \in Records /\ session'.attempts = session.attempts + 1
         /\ session'.human = session.human
         /\ snap' \in Snapshots /\ snap'.attempts \in {snap.attempts, session.attempts + 1}
         /\ record' \in Records /\ torn' \in BOOLEAN /\ faults' \in 0 .. MaxFaults
         /\ \/ /\ snap'.attempts = session.attempts + 1 /\ record' = session' /\ ~torn'
               /\ at' = "deliver" /\ queue' = said /\ loaded' = NewSnapshot
               /\ UNCHANGED <<how, said, badStream, outcome, faults>>
            \/ faults' = faults + 1 /\ torn' /\ Ends("broken") /\ record' = record
<1>1. CountedReply.session \in Records /\ CountedReply.session.attempts = session.attempts + 1
      /\ CountedReply.session.human = session.human
  BY DEF CountedReply, TypeOK, Records
<1>2. CountedReply.snap \in Snapshots /\ CountedReply.snap.attempts = session.attempts + 1
  <2>. DEFINE n == session.attempts + 1
  <2>1. CountedReply.snap = [loaded EXCEPT !.attempts = n] BY DEF CountedReply
  <2>2. n \in Nat BY Numbers
  <2>. HIDE DEF n
  <2>3. CountedReply.snap \in Snapshots /\ CountedReply.snap.attempts = n
    BY <2>1, <2>2 DEF TypeOK, Snapshots
  <2>. QED BY <2>3 DEF n
<1>3. /\ at = "turn" /\ how = "reply" /\ UNCHANGED <<policy, streamed, routed, gone, decided, spent>>
      /\ session' = CountedReply.session
  BY DEF ReplyEnds, config
<1>4. \/ /\ snap' = CountedReply.snap /\ record' = session' /\ torn' = FALSE
         /\ at' = "deliver" /\ queue' = said /\ loaded' = NewSnapshot
         /\ UNCHANGED <<how, said, badStream, outcome, faults>>
      \/ Fault /\ torn' = TRUE /\ Ends("broken") /\ record' = record
         /\ snap' \in {snap, CountedReply.snap}
  BY <1>3 DEF ReplyEnds
<1>. QED BY <1>1, <1>2, <1>3, <1>4, FaultEffect DEF TypeOK

(* The next event is projected.                                            *)
Projects(t) ==
  AgentStreams(t) \/ (queue # <<>> /\ t = Head(queue) /\ ProjectResult)

(* An event is projected from a stream or from a result.                   *)
LEMMA ProjectsEffect ==
  ASSUME TypeOK, Flow, NEW t \in Texts, Projects(t)
  PROVE  /\ Pending = 0 /\ ProjectHistory(t) /\ UNCHANGED <<policy, streamed, gone>>
         /\ SaveAndShow(Projected(t)) \/ SaveFails(Projected(t))
         /\ \/ /\ at = "turn" /\ Streaming /\ CanSay(t) /\ said' = Append(said, t)
               /\ (badStream' = badStream /\ SaveAndShow(Projected(t))) \/ badStream' = TRUE
               /\ UNCHANGED <<loaded, at, how, queue, outcome>>
            \/ /\ at = "deliver" /\ queue # <<>> /\ t = Head(queue)
               /\ queue' = Tail(queue) /\ SaveAndShow(Projected(t))
               /\ UNCHANGED <<at, outcome, how, said, badStream, loaded>>
            \/ at = "deliver" /\ Ends("broken")
<1>1. CASE AgentStreams(t)
  <2>1. Pending = 0 /\ ProjectHistory(t) /\ UNCHANGED <<policy, streamed, gone>>
    BY <1>1, PendingIs DEF AgentStreams, Streaming, config
  <2>2. /\ at = "turn" /\ Streaming /\ CanSay(t) /\ said' = Append(said, t)
        /\ UNCHANGED <<loaded, at, how, queue, outcome>>
    BY <1>1 DEF AgentStreams
  <2>3. \/ SaveAndShow(Projected(t)) /\ badStream' = badStream
        \/ SaveFails(Projected(t)) /\ badStream' = TRUE
    BY <1>1 DEF AgentStreams
  <2>. QED BY <2>1, <2>2, <2>3
<1>2. CASE queue # <<>> /\ t = Head(queue) /\ ProjectResult
  BY <1>2, PendingIs DEF ProjectResult, config
<1>. QED BY <1>1, <1>2 DEF Projects

(* The message of the turn: shown, found to have no topic, or that fails.  *)
LEMMA MessageEffect ==
  ASSUME TypeOK, Message
  PROVE  /\ at = "deliver" /\ queue = <<>> /\ Pending = 0
         /\ decided' \in SupportStates /\ UNCHANGED <<policy, streamed, gone, spent>>
         /\ \/ /\ ~gone \/ said # <<>>
               /\ at' = "decide" /\ UNCHANGED <<files, session, loaded, turn, outcome, torn, faults>>
            \/ Retires(snap) /\ gone /\ at' = "decide" /\ UNCHANGED <<loaded, turn, outcome>>
            \/ RetireFails(snap, record) /\ gone /\ Ends("broken")
BY PendingIs DEF Message, TypeOK, SupportStates

(* finishStart tells of the failure, and finds that there is no topic.     *)
LEMMA TellsEffect ==
  ASSUME TypeOK, TellsOfFailure
  PROVE  /\ at = "idle" /\ outcome = "broken" /\ decided' \in SupportStates
         /\ Retires(snap) \/ RetireFails(snap, record)
         /\ UNCHANGED <<policy, streamed, gone, spent, loaded, at, how, said, queue, badStream,
                        outcome>>
BY DEF TellsOfFailure, SupportStates

(* The steps of Next, grouped by what they do.                             *)
LEMMA NextSteps ==
  ASSUME TypeOK, [Next]_vars
  PROVE  \/ Owes \/ Clear \/ Leaves \/ ReplyEnds
         \/ \E t \in Texts : Projects(t) \/ Replies(t) \/ AgentSays(t)
         \/ HumanMessage \/ TopicIsDeleted \/ StartEnds \/ ResumeEnds \/ Message
         \/ Breaks \/ TellsOfFailure
         \/ UNCHANGED vars
<1>1. ASSUME ProjectResult PROVE \E t \in Texts : Projects(t)
  <2>1. queue # <<>> BY <1>1 DEF ProjectResult
  <2>2. Head(queue) \in Texts BY <2>1 DEF TypeOK
  <2>. QED BY <1>1, <2>1, <2>2 DEF Projects
<1>. QED BY <1>1 DEF Next, Owes, Leaves, Projects
-----------------------------------------------------------------------------
(* Each part of the invariant is kept.                                     *)

(* The types of what the steps of a delivery change,                       *)
LEMMA CoreTypesStep ==
  ASSUME TypeOK, Flow, Counted, [Next]_vars
  PROVE  CoreTypes'
<1>1. ASSUME NEW new \in Snapshots, NEW result \in {"owed", "resolved"}, SaveAndEnd(new, result),
             decided' \in SupportStates, UNCHANGED <<policy, streamed, gone, spent>>
      PROVE  CoreTypes'
  <2>1. SaveAndShow(new) \/ SaveFails(new) BY <1>1, SaveAndEndEffect
  <2>2. Ends(result) \/ Ends("broken") BY <1>1, SaveAndEndEffect
  <2>. QED BY <1>1, <2>1, <2>2, SaveEffect, EndsEffect DEF CoreTypes, TypeOK
<1>2. CASE Owes BY <1>1, <1>2, OwesEffect
<1>3. CASE Clear
  <2>1. CASE Ends("resolved") /\ UNCHANGED <<snap, record, routed, session, torn, faults>>
    BY <1>3, <2>1, ClearEffect, EndsEffect DEF CoreTypes, TypeOK
  <2>. QED BY <1>1, <1>3, <2>1, ClearEffect
<1>4. CASE Leaves BY <1>4, LeavesEffect, EndsEffect DEF CoreTypes, TypeOK
<1>5. CASE ReplyEnds
  <2>1. CASE Ends("broken")
    BY <1>5, <2>1, ReplyEffect, EndsEffect DEF CoreTypes, TypeOK
  <2>2. CASE ~Ends("broken")
    BY <1>5, <2>2, ReplyEffect, NewType DEF CoreTypes, TypeOK
  <2>. QED BY <2>1, <2>2
<1>6. ASSUME NEW t \in Texts, Projects(t) PROVE CoreTypes'
  <2>1. SaveAndShow(Projected(t)) \/ SaveFails(Projected(t)) BY <1>6, ProjectsEffect
  <2>2. Projected(t) \in Snapshots BY ProjectedType DEF CoreTypes, TypeOK
  <2>3. decided' \in SupportStates /\ spent' \in Nat BY <1>6, ProjectsEffect, ProjectEffect
  <2>4. session' \in Records /\ snap' \in Snapshots /\ record' \in Records
        /\ torn' \in BOOLEAN /\ faults' \in 0 .. MaxFaults
    BY <2>1, <2>2, SaveEffect
  <2>5. UNCHANGED <<policy, streamed>> BY <1>6, ProjectsEffect
  <2>6. CASE at = "turn"
    <3>1. /\ CanSay(t) /\ said' = Append(said, t) /\ badStream' \in BOOLEAN
          /\ UNCHANGED <<loaded, at, how, queue, outcome>>
      BY <1>6, <2>6, ProjectsEffect DEF CoreTypes, TypeOK
    <3>2. said' \in Seq(Texts) /\ Len(said') <= MaxEvents BY <3>1 DEF CanSay, TypeOK
    <3>. QED BY <2>3, <2>4, <2>5, <3>1, <3>2 DEF CoreTypes, TypeOK
  <2>7. CASE at = "deliver"
    <3>1. CASE Ends("broken") BY <2>3, <2>4, <2>5, <3>1, EndsEffect DEF CoreTypes, TypeOK
    <3>2. CASE ~Ends("broken")
      <4>1. /\ queue # <<>> /\ queue' = Tail(queue)
            /\ UNCHANGED <<at, outcome, how, said, badStream, loaded>>
        BY <1>6, <2>7, <3>2, ProjectsEffect
      <4>2. queue' \in Seq(Texts) /\ Len(queue') <= MaxEvents BY <4>1 DEF CoreTypes, TypeOK
      <4>. QED BY <2>3, <2>4, <2>5, <4>1, <4>2 DEF CoreTypes, TypeOK
    <3>. QED BY <3>1, <3>2
  <2>. QED BY <1>6, <2>6, <2>7, ProjectsEffect
<1>7. ASSUME NEW t \in Texts, Replies(t) PROVE CoreTypes'
  <2>1. PICK new \in Snapshots :
          \/ /\ SaveAndShow(new)
             /\ loaded' = snap /\ at' = "turn" /\ how' = "reply" /\ said' = <<>>
             /\ decided' \in {"replied", "escalated"} /\ spent' \in {spent, spent + 1}
             /\ UNCHANGED <<queue, badStream, outcome>>
          \/ SaveFails(new) /\ Ends("broken") /\ UNCHANGED <<decided, spent>>
    BY <1>7, RepliesEffect
  <2>2. UNCHANGED <<policy, streamed>> BY <1>7, RepliesEffect
  <2>3. session' \in Records /\ snap' \in Snapshots /\ record' \in Records
        /\ torn' \in BOOLEAN /\ faults' \in 0 .. MaxFaults
    BY <2>1, SaveEffect
  <2>4. CASE Ends("broken") BY <2>1, <2>2, <2>3, <2>4, EndsEffect, Numbers DEF CoreTypes, TypeOK, SupportStates
  <2>5. CASE ~Ends("broken")
    <3>1. said' \in Seq(Texts) /\ Len(said') <= MaxEvents BY <2>1, <2>5, EmptyType
    <3>2. spent' \in Nat BY <2>1, <2>5, Numbers
    <3>. QED BY <2>1, <2>2, <2>3, <2>5, <3>1, <3>2 DEF CoreTypes, TypeOK, SupportStates
  <2>. QED BY <2>4, <2>5
<1>8. ASSUME NEW t \in Texts, AgentSays(t) PROVE CoreTypes'
  <2>1. said' \in Seq(Texts) /\ Len(said') <= MaxEvents BY <1>8 DEF AgentSays, CanSay, TypeOK
  <2>. QED BY <1>8, <2>1 DEF AgentSays, CoreTypes, TypeOK
<1>9. CASE HumanMessage BY <1>9 DEF HumanMessage, CoreTypes, TypeOK
<1>10. CASE StartEnds \/ ResumeEnds
  <2>1. queue' \in Seq(Texts) /\ Len(queue') <= MaxEvents
    BY <1>10, EmptyType DEF StartEnds, ResumeEnds, Unprojected, TypeOK
  <2>. QED BY <1>10, <2>1 DEF StartEnds, ResumeEnds, CoreTypes, TypeOK
<1>11. CASE Breaks BY <1>11, EndsEffect, FaultEffect DEF Breaks, CoreTypes, TypeOK
<1>12. CASE TopicIsDeleted \/ UNCHANGED vars BY <1>12 DEF TopicIsDeleted, CoreTypes, TypeOK
<1>13. CASE Message
  <2>1. decided' \in SupportStates /\ UNCHANGED <<policy, streamed, spent>> BY <1>13, MessageEffect
  <2>2. CASE UNCHANGED <<files, session, torn, faults>> /\ at' = "decide"
             /\ UNCHANGED <<loaded, turn, outcome>>
    BY <2>1, <2>2 DEF CoreTypes, TypeOK
  <2>3. CASE Retires(snap) /\ at' = "decide" /\ UNCHANGED <<loaded, turn, outcome>>
    BY <2>1, <2>3, RetireEffect DEF CoreTypes, TypeOK
  <2>4. CASE RetireFails(snap, record) /\ Ends("broken")
    BY <2>1, <2>4, RetireEffect, EndsEffect DEF CoreTypes, TypeOK
  <2>. QED BY <1>13, <2>2, <2>3, <2>4, MessageEffect
<1>14. CASE TellsOfFailure BY <1>14, TellsEffect, RetireEffect DEF CoreTypes, TypeOK
<1>. QED
  BY <1>2, <1>3, <1>4, <1>5, <1>6, <1>7, <1>8, <1>9, <1>10, <1>11, <1>12, <1>13, <1>14, NextSteps

(* and of what says where the topic is: Booleans.                          *)
LEMMA TopicTypesStep ==
  ASSUME TypeOK, [Next]_vars
  PROVE  tells' \in BOOLEAN /\ routed' \in BOOLEAN /\ gone' \in BOOLEAN
<1>1. tells \in BOOLEAN /\ routed \in BOOLEAN /\ gone \in BOOLEAN BY Zenon DEF TypeOK
<1>2. ASSUME NEW new, SaveAndShow(new) \/ SaveFails(new) PROVE routed' \in BOOLEAN
  BY <1>1, <1>2, Zenon DEF SaveAndShow, SaveFails, Retires, RetireFails
<1>3. ASSUME NEW new, NEW result, SaveAndEnd(new, result) PROVE routed' \in BOOLEAN
  BY <1>2, <1>3, Zenon DEF SaveAndEnd
<1>4. ASSUME NEW t \in Texts, AgentStreams(t) \/ AgentSays(t) \/ Decides(t)
      PROVE  tells' \in BOOLEAN /\ routed' \in BOOLEAN /\ gone' \in BOOLEAN
  <2>1. tells' = tells /\ gone' = gone
    BY <1>4 DEF AgentStreams, AgentSays, Decides, AsksHuman, NoPolicy, Ignores, Escalates,
                PassesToHuman, Replies
  <2>2. routed' \in BOOLEAN
    BY <1>1, <1>2, <1>3, <1>4, Zenon
    DEF AgentStreams, AgentSays, Decides, AsksHuman, NoPolicy, Ignores, Escalates, PassesToHuman,
        Replies, files
  <2>. QED BY <1>1, <2>1, <2>2, Zenon
<1>5. ASSUME TurnEnds \/ ProjectResult \/ Clear \/ NothingMore \/ HumanMessage \/ Breaks
      PROVE  tells' \in BOOLEAN /\ routed' \in BOOLEAN /\ gone' \in BOOLEAN
  <2>1. gone' = gone
    BY <1>5 DEF TurnEnds, TurnFails, ResumeStreamWasBad, StartEnds, ResumeEnds, ReplyEnds,
                ProjectResult, Clear, NothingMore, HumanMessage, Breaks
  <2>2. tells' \in {tells, FALSE, tells /\ how # "start"}
    BY <1>5 DEF TurnEnds, TurnFails, ResumeStreamWasBad, StartEnds, ResumeEnds, ReplyEnds,
                ProjectResult, Clear, NothingMore, HumanMessage, Breaks
  <2>3. tells' \in BOOLEAN BY <1>1, <2>2
  <2>4. routed' \in BOOLEAN
    BY <1>1, <1>2, <1>3, <1>5, Zenon
    DEF TurnEnds, TurnFails, ResumeStreamWasBad, StartEnds, ResumeEnds, ReplyEnds,
        ProjectResult, Clear, NothingMore, HumanMessage, Breaks, files
  <2>. QED BY <1>1, <2>1, <2>3, <2>4, Zenon
<1>6. CASE Message \/ TellsOfFailure \/ TopicIsDeleted
  <2>1. tells' \in {tells, FALSE} /\ routed' \in {routed, FALSE} /\ gone' \in {gone, TRUE}
    BY <1>6 DEF Message, TellsOfFailure, TopicIsDeleted, Retires, RetireFails
  <2>. QED BY <1>1, <2>1
<1>7. CASE UNCHANGED vars BY <1>1, <1>7, Zenon DEF vars, files, turn
<1>. QED BY <1>4, <1>5, <1>6, <1>7 DEF Next, TurnEnds, Decides

(* The type invariant.                                                     *)
LEMMA TypeStep ==
  ASSUME TypeOK, Flow, Counted, [Next]_vars
  PROVE  TypeOK'
BY CoreTypesStep, TopicTypesStep, Zenon DEF CoreTypes, TypeOK


(* The flow of a turn.                                                     *)
LEMMA FlowStep ==
  ASSUME TypeOK, Flow, Counted, [Next]_vars
  PROVE  Flow'
<1>1. ASSUME at' = "idle" /\ how' = "resume" /\ said' = <<>> /\ queue' = <<>> /\ badStream' = FALSE
      PROVE  Flow'
  BY <1>1 DEF Flow
<1>2. ASSUME NEW result, Ends(result) PROVE Flow' BY <1>1, <1>2, EndsEffect
<1>3. CASE Owes BY <1>2, <1>3, OwesEffect, SaveAndEndEffect
<1>4. CASE Clear BY <1>2, <1>4, ClearEffect, SaveAndEndEffect
<1>5. CASE Leaves BY <1>2, <1>5, LeavesEffect
<1>6. CASE ReplyEnds BY <1>2, <1>6, ReplyEffect DEF Flow, TypeOK
<1>7. ASSUME NEW t \in Texts, Projects(t) PROVE Flow'
  <2>1. CASE at = "turn" BY <1>7, <2>1, ProjectsEffect DEF Flow, Streaming
  <2>2. CASE at = "deliver" /\ ~Ends("broken")
    <3>1. /\ queue # <<>> /\ queue' = Tail(queue) /\ UNCHANGED <<at, how, said, badStream, policy>>
      BY <1>7, <2>2, ProjectsEffect
    <3>2. /\ Len(queue') = Len(queue) - 1 /\ Len(queue) >= 1 /\ Len(said) \in Nat /\ Len(queue) \in Nat
          /\ \A i \in 1 .. Len(queue') : queue'[i] = queue[i + 1]
      BY <3>1 DEF TypeOK
    <3>3. ASSUME NEW i \in 1 .. Len(queue') PROVE queue'[i] = said[Len(said) - Len(queue') + i]
      <4>1. queue'[i] = queue[i + 1] /\ i + 1 \in 1 .. Len(queue) BY <3>2
      <4>2. queue[i + 1] = said[Len(said) - Len(queue) + (i + 1)] BY <2>2, <4>1 DEF Flow
      <4>3. Len(said) - Len(queue) + (i + 1) = Len(said) - Len(queue') + i BY <3>2
      <4>. QED BY <4>1, <4>2, <4>3
    <3>4. Len(queue') <= Len(said) BY <2>2, <3>2 DEF Flow
    <3>5. said' = said /\ at' = "deliver" /\ how' = how /\ policy' = policy /\ badStream' = badStream
      BY <2>2, <3>1
    <3>6. \A i \in 1 .. Len(queue') : queue'[i] = said'[Len(said') - Len(queue') + i]
      BY <3>3, <3>5
    <3>7. (how' = "reply" => policy') /\ ~badStream' BY <2>2, <3>5 DEF Flow
    <3>. QED BY <3>4, <3>5, <3>6, <3>7 DEF Flow
  <2>. QED BY <1>2, <1>7, <2>1, <2>2, ProjectsEffect
<1>8. ASSUME NEW t \in Texts, Replies(t) PROVE Flow'
  <2>1. CASE Ends("broken") BY <1>2, <2>1
  <2>2. CASE ~Ends("broken") BY <1>8, <2>2, RepliesEffect DEF Flow
  <2>. QED BY <2>1, <2>2
<1>9. ASSUME NEW t \in Texts, AgentSays(t) PROVE Flow' BY <1>9 DEF AgentSays, Flow
<1>10. CASE HumanMessage BY <1>10 DEF HumanMessage, Flow
<1>11. CASE StartEnds \/ ResumeEnds
  BY <1>11 DEF StartEnds, ResumeEnds, Unprojected, Flow, TypeOK
<1>12. CASE Breaks BY <1>2, <1>12 DEF Breaks
<1>13. CASE TopicIsDeleted \/ UNCHANGED vars BY <1>13 DEF TopicIsDeleted, Flow
<1>14. CASE Message
  <2>1. CASE at' = "decide" /\ UNCHANGED <<loaded, turn, outcome>>
    BY <1>14, <2>1, MessageEffect DEF Flow
  <2>. QED BY <1>2, <1>14, <2>1, MessageEffect
<1>15. CASE TellsOfFailure BY <1>15, TellsEffect DEF Flow
<1>. QED
  BY <1>3, <1>4, <1>5, <1>6, <1>7, <1>8, <1>9, <1>10, <1>11, <1>12, <1>13, <1>14, <1>15, NextSteps

(* The counts, and with them the budget: a reply is bought only below the  *)
(* budget, which is when the budget bound is taken from the count.         *)
LEMMA CountedStep ==
  ASSUME TypeOK, Flow, Counted, BudgetBetweenProgress, [Next]_vars
  PROVE  Counted' /\ BudgetBetweenProgress'
<1>0. at' # "turn" \/ how' # "reply" => Pending' = 0 BY DEF Pending
<1>1. ASSUME NEW new \in Snapshots, NEW result, SaveAndEnd(new, result),
             spent <= new.attempts + faults, spent' = spent
      PROVE  Counted' /\ BudgetBetweenProgress'
  <2>1. Pending' = 0 BY <1>0, <1>1, SaveAndEndEffect, EndsEffect
  <2>2. new.attempts \in Nat BY DEF Snapshots
  <2>3. SaveAndShow(new) \/ SaveFails(new) BY <1>1, SaveAndEndEffect
  <2>4. session'.attempts = new.attempts BY <2>3, SaveEffect
  <2>5. CASE snap'.attempts = new.attempts /\ record' = session' /\ faults' = faults
    BY <1>1, <2>1, <2>2, <2>4, <2>5, Numbers DEF Counted, BudgetBetweenProgress
  <2>6. CASE /\ snap'.attempts \in {snap.attempts, new.attempts}
             /\ record'.attempts \in {record.attempts, new.attempts} /\ faults' = faults + 1
    BY <1>1, <2>1, <2>2, <2>4, <2>6, Numbers, PendingIs DEF Counted, BudgetBetweenProgress
  <2>. QED BY <2>3, <2>5, <2>6, SaveEffect
<1>2. CASE Owes BY <1>1, <1>2, OwesEffect
<1>3. CASE Clear
  <2>1. spent <= snap.attempts + faults BY <1>3, ClearEffect, PendingIs, Numbers DEF Counted
  <2>2. CASE Ends("resolved") /\ UNCHANGED <<snap, record, routed, session, torn, faults>>
    <3>1. Pending' = 0 /\ Pending = 0 BY <1>0, <1>3, <2>2, EndsEffect, ClearEffect, PendingIs
    <3>. QED BY <1>3, <2>2, <3>1, ClearEffect DEF Counted, BudgetBetweenProgress
  <2>. QED BY <1>1, <1>3, <2>1, <2>2, ClearEffect
<1>4. CASE Leaves
  <2>1. Pending = 0 BY <1>4, LeavesEffect, PendingIs
  <2>2. Pending' = 0 BY <1>0, <1>4, LeavesEffect, EndsEffect
  <2>. QED BY <1>4, <2>1, <2>2, LeavesEffect DEF Counted, BudgetBetweenProgress
<1>5. CASE ReplyEnds
  <2>1. Pending = 1 BY <1>5, ReplyEffect, PendingIs
  <2>2. Pending' = 0 BY <1>0, <1>5, ReplyEffect, EndsEffect
  <2>3. spent' = spent /\ session'.attempts = session.attempts + 1
        /\ snap'.attempts \in {snap.attempts, session.attempts + 1}
    BY <1>5, ReplyEffect
  <2>4. CASE snap'.attempts = session.attempts + 1 /\ record' = session' /\ faults' = faults
    BY <2>1, <2>2, <2>3, <2>4, Numbers DEF Counted, BudgetBetweenProgress
  <2>5. CASE faults' = faults + 1 /\ record' = record
    BY <2>1, <2>2, <2>3, <2>5, Numbers DEF Counted, BudgetBetweenProgress
  <2>. QED BY <1>5, <2>4, <2>5, ReplyEffect
<1>6. ASSUME NEW t \in Texts, Projects(t) PROVE Counted' /\ BudgetBetweenProgress'
  <2>1. /\ Pending = 0 /\ ProjectHistory(t)
        /\ SaveAndShow(Projected(t)) \/ SaveFails(Projected(t))
    BY <1>6, ProjectsEffect
  <2>2. Pending' = 0
    <3>1. CASE at = "turn" BY <1>0, <1>6, <3>1, ProjectsEffect DEF Streaming
    <3>2. CASE at = "deliver" BY <1>0, <1>6, <3>2, ProjectsEffect, EndsEffect
    <3>. QED BY <1>6, <3>1, <3>2, ProjectsEffect
  <2>3. /\ spent' <= snap'.attempts + faults' /\ spent' <= record'.attempts + faults'
        /\ spent' <= session'.attempts + faults'
    BY <2>1, ProjectEffect
  <2>4. spent' \in {0, spent} BY <2>1 DEF ProjectHistory
  <2>5. faults' \in {faults, faults + 1} BY <2>1, ProjectedType, SaveEffect DEF TypeOK
  <2>6. snap' \in Snapshots /\ record' \in Records /\ session' \in Records
    BY <2>1, ProjectedType, SaveEffect DEF TypeOK
  <2>. QED BY <2>2, <2>3, <2>4, <2>5, <2>6, Numbers
    DEF Counted, BudgetBetweenProgress, Snapshots, Records
<1>7. ASSUME NEW t \in Texts, Replies(t) PROVE Counted' /\ BudgetBetweenProgress'
  <2>1. at = "decide" /\ Pending = 0 /\ snap.attempts < MaxAutoReplies
    BY <1>7, RepliesEffect, PendingIs
  <2>2. PICK new \in Snapshots :
          /\ new.attempts = snap.attempts
          /\ \/ /\ SaveAndShow(new) /\ at' = "turn" /\ how' = "reply" /\ spent' \in {spent, spent + 1}
             \/ SaveFails(new) /\ Ends("broken") /\ spent' = spent
    BY <1>7, RepliesEffect
  <2>3. spent <= snap.attempts + faults BY <2>1, Numbers DEF Counted
  <2>4. CASE SaveFails(new) /\ Ends("broken") /\ spent' = spent
    <3>1. Pending' = 0 BY <1>0, <2>4, EndsEffect
    <3>2. faults' = faults + 1 BY <2>4, FailsEffect, FaultEffect
    <3>3. /\ session'.attempts = snap.attempts /\ snap'.attempts = snap.attempts
          /\ record'.attempts \in {record.attempts, snap.attempts}
      <4>1. ~SaveAndShow(new) \/ faults' = faults BY DEF SaveAndShow, Retires, SaveBoth
      <4>2. faults \in Nat BY Numbers
      <4>. QED BY <2>2, <2>4, <3>2, <4>1, <4>2, SaveEffect
    <3>. QED BY <2>1, <2>2, <2>3, <2>4, <3>1, <3>2, <3>3, Numbers DEF Counted, BudgetBetweenProgress
  <2>5. CASE SaveAndShow(new) /\ at' = "turn" /\ how' = "reply" /\ spent' \in {spent, spent + 1}
    <3>1. Pending' = 1 BY <2>5 DEF Pending
    <3>2. /\ session'.attempts = snap.attempts /\ record' = session'
          /\ snap'.attempts = snap.attempts /\ faults' = faults
      <4>1. record' = session' BY <2>5, ShownEffect
      <4>2. faults' = faults BY <2>5 DEF SaveAndShow, Retires, SaveBoth
      <4>. QED BY <2>2, <2>5, <4>1, <4>2, SaveEffect
    <3>. QED BY <2>1, <2>2, <2>3, <2>5, <3>1, <3>2, Numbers, BoundsAreNatural
      DEF Counted, BudgetBetweenProgress
  <2>. QED BY <2>2, <2>4, <2>5
<1>8. ASSUME NEW t \in Texts, AgentSays(t) PROVE Counted' /\ BudgetBetweenProgress'
  <2>1. Pending' = Pending BY <1>8 DEF AgentSays, Pending
  <2>. QED BY <1>8, <2>1 DEF AgentSays, Counted, BudgetBetweenProgress
<1>9. CASE HumanMessage
  <2>1. Pending' = 0 /\ Pending = 0 BY <1>9 DEF HumanMessage, Pending, Flow
  <2>. QED BY <1>9, <2>1 DEF HumanMessage, Counted, BudgetBetweenProgress
<1>10. CASE StartEnds \/ ResumeEnds
  <2>1. Pending' = 0 /\ Pending = 0 BY <1>10 DEF StartEnds, ResumeEnds, Pending
  <2>. QED BY <1>10, <2>1 DEF StartEnds, ResumeEnds, Counted, BudgetBetweenProgress
<1>11. CASE Breaks
  <2>1. Pending' = 0 BY <1>0, <1>11, EndsEffect DEF Breaks
  <2>2. Pending \in {0, 1} BY PendingIs
  <2>. QED BY <1>11, <2>1, <2>2, Numbers, FaultEffect DEF Breaks, Counted, BudgetBetweenProgress
<1>12. CASE TopicIsDeleted \/ UNCHANGED vars
  BY <1>12 DEF TopicIsDeleted, Counted, BudgetBetweenProgress, Pending
<1>13. ASSUME Retires(snap) \/ RetireFails(snap, record),
              Pending = 0, Pending' = 0, spent' = spent
       PROVE  Counted' /\ BudgetBetweenProgress'
  <2>1. spent <= snap.attempts + faults /\ spent <= record.attempts + faults
    BY <1>13, Numbers DEF Counted
  <2>2. /\ session'.attempts = snap.attempts /\ snap'.attempts = snap.attempts
        /\ record'.attempts \in {record.attempts, snap.attempts} /\ faults' \in {faults, faults + 1}
    BY <1>13, RetireEffect
  <2>. QED BY <1>13, <2>1, <2>2, Numbers DEF Counted, BudgetBetweenProgress
<1>14. CASE Message
  <2>1. Pending = 0 /\ spent' = spent BY <1>14, MessageEffect
  <2>2. Pending' = 0 BY <1>0, <1>14, MessageEffect, EndsEffect
  <2>3. CASE UNCHANGED <<files, session, faults>>
    BY <2>1, <2>2, <2>3 DEF Counted, BudgetBetweenProgress
  <2>. QED BY <1>13, <1>14, <2>1, <2>2, <2>3, MessageEffect
<1>15. CASE TellsOfFailure
  <2>1. Pending = 0 /\ Pending' = 0 BY <1>0, <1>15, TellsEffect, PendingIs
  <2>. QED BY <1>13, <1>15, <2>1, TellsEffect
<1>. QED
  BY <1>2, <1>3, <1>4, <1>5, <1>6, <1>7, <1>8, <1>9, <1>10, <1>11, <1>12, <1>14, <1>15, NextSteps

(* The parts about the human: what is owed is flagged in both files, and a *)
(* request is only ever cleared from both.                                 *)
LEMMA ProjectionFlags ==
  ASSUME TypeOK, Flow, OpenIsFlagged, NEW t \in Texts, Projects(t)
  PROVE  OpenIsFlagged'
<1>. SUFFICES ASSUME ~policy', at' # "idle", ~badStream', OpenAmong(ProjectedEvents)'
              PROVE  snap'.human /\ record'.human /\ session'.human
  BY DEF OpenIsFlagged
<1>. DEFINE n == ProjectedEvents
<1>1. ~policy BY ProjectsEffect
<1>2. Projected(t) \in Snapshots BY ProjectedType DEF TypeOK
<1>3. /\ SaveAndShow(Projected(t)) /\ n \in Nat /\ ProjectedEvents' = n + 1
      /\ said'[n + 1] = t /\ \A i \in 1 .. n : said'[i] = said[i]
      /\ at # "idle" /\ ~badStream
  <2>1. CASE at = "turn"
    <3>1. Streaming /\ said' = Append(said, t) /\ badStream' = badStream
          /\ SaveAndShow(Projected(t))
          /\ UNCHANGED <<at, how, streamed>>
      BY <2>1, ProjectsEffect
    <3>2. n = Len(said) /\ ProjectedEvents' = Len(said')
      BY <2>1, <3>1 DEF ProjectedEvents, Streaming
    <3>3. /\ Len(said) \in Nat /\ Len(said') = Len(said) + 1 /\ said'[Len(said) + 1] = t
          /\ \A i \in 1 .. Len(said) : said'[i] = said[i]
      BY <3>1 DEF TypeOK
    <3>. QED BY <2>1, <3>1, <3>2, <3>3
  <2>2. CASE at = "deliver"
    <3>1. ~Ends("broken") BY EndsEffect
    <3>2. /\ queue # <<>> /\ t = Head(queue) /\ queue' = Tail(queue)
          /\ SaveAndShow(Projected(t))
          /\ UNCHANGED <<at, said, badStream>>
      BY <2>2, <3>1, ProjectsEffect
    <3>3. Len(queue) \in Nat /\ Len(queue) >= 1 /\ t = queue[1] /\ Len(queue') = Len(queue) - 1
          /\ Len(said) \in Nat
      BY <3>2 DEF TypeOK
    <3>4. Len(queue) <= Len(said) /\ queue[1] = said[Len(said) - Len(queue) + 1]
      BY <2>2, <3>3 DEF Flow
    <3>5. n = Len(said) - Len(queue) /\ ProjectedEvents' = Len(said') - Len(queue')
      BY <2>2, <3>2 DEF ProjectedEvents
    <3>. QED BY <2>2, <3>2, <3>3, <3>4, <3>5
  <2>. QED BY <2>1, <2>2, ProjectsEffect
<1>. HIDE DEF n
<1>4. PICK i \in 1 .. n + 1 :
        /\ Actionable(said'[i])
        /\ \A j \in i + 1 .. n + 1 : Kind[said'[j]] \notin {"blocker_resolved", "done"}
  BY <1>3 DEF OpenAmong, Actionable
<1>5. Projected(t).human
  <2>1. CASE i = n + 1 BY <1>1, <1>3, <1>4, <2>1, ProjectedFlag DEF TypeOK
  <2>2. CASE i # n + 1
    <3>1. i \in 1 .. n /\ n + 1 \in i + 1 .. n + 1 BY <1>3, <2>2
    <3>2. Kind[t] \notin {"blocker_resolved", "done"} BY <1>3, <1>4, <3>1
    <3>3. \A j \in i + 1 .. n : Kind[said[j]] \notin {"blocker_resolved", "done"}
      <4>1. ASSUME NEW j \in i + 1 .. n PROVE j \in 1 .. n /\ j \in i + 1 .. n + 1
        BY <1>3, <3>1
      <4>. QED BY <1>3, <1>4, <4>1
    <3>4. Actionable(said[i]) BY <1>3, <1>4, <3>1
    <3>5. OpenAmong(n) BY <3>1, <3>3, <3>4 DEF OpenAmong
    <3>6. snap.human BY <1>1, <1>3, <3>5 DEF OpenIsFlagged, n
    <3>. QED BY <1>1, <3>2, <3>6, ProjectedFlag DEF TypeOK
  <2>. QED BY <2>1, <2>2
<1>. QED BY <1>2, <1>3, <1>5, ShownEffect

(* Every other step leaves the flags and the open events alone.            *)
LEMMA OpenStep ==
  ASSUME TypeOK, Flow, Counted, OpenIsFlagged, [Next]_vars
  PROVE  OpenIsFlagged'
<1>1. ASSUME NEW result, Ends(result) PROVE OpenIsFlagged'
  BY <1>1, EndsEffect DEF OpenIsFlagged
<1>2. CASE Owes BY <1>1, <1>2, OwesEffect, SaveAndEndEffect
<1>3. CASE Clear BY <1>1, <1>3, ClearEffect, SaveAndEndEffect
<1>4. CASE Leaves BY <1>1, <1>4, LeavesEffect
<1>5. CASE ReplyEnds
  <2>1. policy' BY <1>5, ReplyEffect DEF Flow
  <2>. QED BY <2>1 DEF OpenIsFlagged
<1>6. ASSUME NEW t \in Texts, Projects(t) PROVE OpenIsFlagged' BY <1>6, ProjectionFlags
<1>7. ASSUME NEW t \in Texts, Replies(t) PROVE OpenIsFlagged'
  <2>1. policy' BY <1>7, RepliesEffect
  <2>. QED BY <2>1 DEF OpenIsFlagged
<1>8. ASSUME NEW t \in Texts, AgentSays(t) PROVE OpenIsFlagged'
  <2>1. ProjectedEvents' = 0 BY <1>8 DEF AgentSays, ProjectedEvents, Streaming
  <2>. QED BY <2>1 DEF OpenIsFlagged, OpenAmong
<1>9. CASE HumanMessage
  <2>1. ProjectedEvents' = 0 BY <1>9 DEF HumanMessage, ProjectedEvents, Flow
  <2>. QED BY <2>1 DEF OpenIsFlagged, OpenAmong
<1>10. CASE StartEnds \/ ResumeEnds
  <2>1. ProjectedEvents' = ProjectedEvents
    BY <1>10 DEF StartEnds, ResumeEnds, Unprojected, ProjectedEvents, TypeOK
  <2>2. said' = said /\ policy' = policy /\ badStream' = badStream /\ snap' = snap
        /\ session' = session /\ record' \in {record, session} /\ at = "turn"
    BY <1>10 DEF StartEnds, ResumeEnds
  <2>3. OpenAmong(ProjectedEvents)' <=> OpenAmong(ProjectedEvents)
    BY <2>1, <2>2 DEF OpenAmong, Actionable
  <2>. QED BY <2>2, <2>3 DEF OpenIsFlagged
<1>11. CASE Breaks BY <1>1, <1>11 DEF Breaks
<1>12. CASE TopicIsDeleted \/ UNCHANGED vars
  BY <1>12 DEF TopicIsDeleted, OpenIsFlagged, OpenAmong, ProjectedEvents, Streaming, Actionable
<1>13. CASE Message
  <2>1. CASE at' = "decide" /\ UNCHANGED <<files, session, turn>>
    <3>1. at = "deliver" /\ policy' = policy BY <1>13, MessageEffect
    <3>2. ProjectedEvents' = ProjectedEvents BY <2>1, <3>1 DEF ProjectedEvents
    <3>3. OpenAmong(ProjectedEvents)' <=> OpenAmong(ProjectedEvents)
      BY <2>1, <3>2 DEF OpenAmong, Actionable
    <3>. QED BY <2>1, <3>1, <3>3 DEF OpenIsFlagged
  <2>2. CASE Retires(snap)
    <3>1. snap'.human /\ record'.human /\ session'.human
      <4>1. session' = ApplySnapshot(Retired(snap)) /\ snap' = Retired(snap)
            /\ record' = ApplySnapshot(Retired(snap))
        BY <2>2 DEF Retires, SaveBoth
      <4>. QED BY <4>1, RetiredType, RecordType DEF TypeOK
    <3>. QED BY <3>1 DEF OpenIsFlagged
  <2>. QED BY <1>1, <1>13, <2>1, <2>2, MessageEffect
<1>14. CASE TellsOfFailure BY <1>14, TellsEffect DEF OpenIsFlagged
<1>. QED
  BY <1>2, <1>3, <1>4, <1>5, <1>6, <1>7, <1>8, <1>9, <1>10, <1>11, <1>12, <1>13, <1>14, NextSteps

(* A delivery that is owed to a human has just saved the flag, or found it *)
(* flagged by the projection of its events.                                *)
LEMMA OwedStep ==
  ASSUME TypeOK, Flow, Counted, OpenIsFlagged, OwedIsFlagged, [Next]_vars
  PROVE  OwedIsFlagged'
<1>1. ASSUME NEW result, Ends(result), result # "owed" PROVE OwedIsFlagged'
  BY <1>1, EndsEffect DEF OwedIsFlagged
<1>2. CASE Owes
  <2>1. PICK new \in Snapshots : new.human /\ SaveAndEnd(new, "owed") BY <1>2, OwesEffect
  <2>2. CASE Ends("broken") BY <1>1, <2>2
  <2>3. CASE ~Ends("broken")
    <3>1. SaveAndShow(new) BY <2>1, <2>3 DEF SaveAndEnd
    <3>. QED BY <2>1, <3>1, ShownEffect DEF OwedIsFlagged
  <2>. QED BY <2>2, <2>3
<1>3. CASE Clear BY <1>1, <1>3, ClearEffect, SaveAndEndEffect
<1>4. CASE Leaves
  <2>1. CASE Ends("owed") /\ at = "decide" /\ ~policy /\ OpenWithoutPolicy
    <3>1. ProjectedEvents = Len(said) /\ Len(said) \in Nat /\ ~badStream
      BY <2>1 DEF ProjectedEvents, Flow, TypeOK
    <3>2. OpenAmong(ProjectedEvents)
      BY <2>1, <3>1 DEF OpenAmong, OpenWithoutPolicy, TypeOK
    <3>. QED BY <1>4, <2>1, <3>1, <3>2, LeavesEffect DEF OpenIsFlagged, OwedIsFlagged
  <2>. QED BY <1>1, <1>4, <2>1, LeavesEffect
<1>5. CASE ReplyEnds BY <1>1, <1>5, ReplyEffect DEF OwedIsFlagged
<1>6. ASSUME NEW t \in Texts, Projects(t) PROVE OwedIsFlagged'
  BY <1>1, <1>6, ProjectsEffect DEF OwedIsFlagged
<1>7. ASSUME NEW t \in Texts, Replies(t) PROVE OwedIsFlagged'
  BY <1>1, <1>7, RepliesEffect DEF OwedIsFlagged
<1>8. ASSUME NEW t \in Texts, AgentSays(t) PROVE OwedIsFlagged'
  BY <1>8 DEF AgentSays, OwedIsFlagged
<1>9. CASE HumanMessage \/ StartEnds \/ ResumeEnds
  BY <1>9 DEF HumanMessage, StartEnds, ResumeEnds, OwedIsFlagged
<1>10. CASE Breaks BY <1>1, <1>10 DEF Breaks
<1>11. CASE TopicIsDeleted \/ UNCHANGED vars BY <1>11 DEF TopicIsDeleted, OwedIsFlagged
<1>12. CASE Message BY <1>1, <1>12, MessageEffect DEF OwedIsFlagged
<1>13. CASE TellsOfFailure BY <1>13, TellsEffect DEF OwedIsFlagged
<1>. QED
  BY <1>2, <1>3, <1>4, <1>5, <1>6, <1>7, <1>8, <1>9, <1>10, <1>11, <1>12, <1>13, NextSteps

(* The files agree until a save fails.                                     *)
LEMMA TogetherStep ==
  ASSUME TypeOK, Flow, Counted, Together, [Next]_vars
  PROVE  Together'
<1>1. ASSUME NEW new \in Snapshots, SaveAndShow(new) \/ SaveFails(new),
             at' = "turn" /\ how' = "reply" => SaveAndShow(new) /\ ~new.human
      PROVE  Together'
  <2>1. at' = "turn" /\ how' = "reply" /\ routed' => ~session'.human
    BY <1>1, ShownEffect
  <2>2. ~torn' => record' = session' /\ snap'.human = session'.human BY <1>1, SaveEffect
  <2>. QED BY <2>1, <2>2 DEF Together
<1>2. ASSUME NEW result, Ends(result), UNCHANGED <<files, torn>> PROVE Together'
  BY <1>2, EndsEffect DEF Together
<1>3. ASSUME NEW new \in Snapshots, NEW result, SaveAndEnd(new, result) PROVE Together'
  <2>1. SaveAndShow(new) \/ SaveFails(new) BY <1>3, SaveAndEndEffect
  <2>2. at' = "idle" BY <1>3, SaveAndEndEffect, EndsEffect
  <2>. QED BY <1>1, <2>1, <2>2
<1>4. CASE Owes BY <1>3, <1>4, OwesEffect
<1>5. CASE Clear BY <1>2, <1>3, <1>5, ClearEffect
<1>6. CASE Leaves BY <1>2, <1>6, LeavesEffect
<1>7. CASE ReplyEnds
  <2>1. at' # "turn" /\ (torn' \/ record' = session') BY <1>7, ReplyEffect, EndsEffect
  <2>2. routed' => ~session'.human BY <1>7, ReplyEffect DEF Together
  <2>. QED BY <2>1, <2>2 DEF Together
<1>8. ASSUME NEW t \in Texts, Projects(t) PROVE Together'
  <2>1. SaveAndShow(Projected(t)) \/ SaveFails(Projected(t)) BY <1>8, ProjectsEffect
  <2>2. Projected(t) \in Snapshots BY ProjectedType DEF TypeOK
  <2>3. ~(at' = "turn" /\ how' = "reply")
    BY <1>8, ProjectsEffect, EndsEffect DEF Streaming
  <2>. QED BY <1>1, <2>1, <2>2, <2>3
<1>9. ASSUME NEW t \in Texts, Replies(t) PROVE Together'
  <2>1. PICK new \in Snapshots : ~new.human /\ (SaveAndShow(new) \/ (SaveFails(new) /\ Ends("broken")))
    BY <1>9, RepliesEffect
  <2>. QED BY <1>1, <2>1, EndsEffect
<1>10. ASSUME NEW t \in Texts, AgentSays(t) PROVE Together' BY <1>10 DEF AgentSays, Together
<1>11. CASE HumanMessage BY <1>11 DEF HumanMessage, Together, Flow
<1>12. CASE StartEnds \/ ResumeEnds BY <1>12 DEF StartEnds, ResumeEnds, Together
<1>13. CASE Breaks BY <1>2, <1>13 DEF Breaks, files
<1>14. CASE TopicIsDeleted \/ UNCHANGED vars BY <1>14 DEF TopicIsDeleted, Together
<1>15. CASE Message
  <2>1. CASE at' = "decide" /\ UNCHANGED <<files, session, torn>>
    BY <1>15, <2>1, MessageEffect DEF Together
  <2>2. CASE Retires(snap) /\ at' = "decide" BY <2>2, RetireEffect DEF Together
  <2>3. CASE RetireFails(snap, record) /\ Ends("broken")
    BY <2>3, RetireEffect, EndsEffect DEF Together
  <2>. QED BY <1>15, <2>1, <2>2, <2>3, MessageEffect
<1>16. CASE TellsOfFailure
  <2>1. at' = "idle" BY <1>16, TellsEffect
  <2>2. torn' \/ ~routed' BY <1>16, TellsEffect, RetireEffect
  <2>. QED BY <2>1, <2>2 DEF Together
<1>. QED
  BY <1>4, <1>5, <1>6, <1>7, <1>8, <1>9, <1>10, <1>11, <1>12, <1>13, <1>14, <1>15, <1>16, NextSteps

(* A request is cleared from the record unless the record never made it.   *)
LEMMA AttentionStep ==
  ASSUME TypeOK, Flow, Counted, Together, AttentionClears, [Next]_vars
  PROVE  AttentionClears'
<1>1. ASSUME NEW result, Ends(result), result # "resolved" PROVE AttentionClears'
  BY <1>1, EndsEffect DEF AttentionClears
<1>2. CASE Owes BY <1>1, <1>2, OwesEffect, SaveAndEndEffect
<1>3. CASE Clear
  <2>1. CASE /\ Resolved(session) \/ Resolved(snap)
             /\ Ends("resolved") /\ UNCHANGED <<snap, record, routed, session, torn, faults>>
    BY <1>3, <2>1, ClearEffect DEF Together, AttentionClears, Resolved
  <2>2. ASSUME NEW new \in Snapshots, ~new.human, SaveAndEnd(new, "resolved")
        PROVE  AttentionClears'
    <3>1. CASE Ends("broken") BY <1>1, <3>1
    <3>2. CASE SaveAndShow(new) BY <2>2, <3>2, ShownEffect DEF AttentionClears
    <3>. QED BY <2>2, <3>1, <3>2, SaveAndEndEffect
  <2>. QED BY <1>3, <2>1, <2>2, ClearEffect
<1>4. CASE Leaves BY <1>1, <1>4, LeavesEffect
<1>5. CASE ReplyEnds BY <1>1, <1>5, ReplyEffect DEF AttentionClears
<1>6. ASSUME NEW t \in Texts, Projects(t) PROVE AttentionClears'
  BY <1>1, <1>6, ProjectsEffect DEF AttentionClears
<1>7. ASSUME NEW t \in Texts, Replies(t) PROVE AttentionClears'
  BY <1>1, <1>7, RepliesEffect DEF AttentionClears
<1>8. ASSUME NEW t \in Texts, AgentSays(t) PROVE AttentionClears'
  BY <1>8 DEF AgentSays, AttentionClears
<1>9. CASE HumanMessage \/ StartEnds \/ ResumeEnds
  BY <1>9 DEF HumanMessage, StartEnds, ResumeEnds, AttentionClears
<1>10. CASE Breaks BY <1>1, <1>10 DEF Breaks
<1>11. CASE TopicIsDeleted \/ UNCHANGED vars BY <1>11 DEF TopicIsDeleted, AttentionClears
<1>12. CASE Message BY <1>1, <1>12, MessageEffect DEF AttentionClears
<1>13. CASE TellsOfFailure BY <1>13, TellsEffect DEF AttentionClears
<1>. QED
  BY <1>2, <1>3, <1>4, <1>5, <1>6, <1>7, <1>8, <1>9, <1>10, <1>11, <1>12, <1>13, NextSteps

(* Once retired, every later step that ends without an error has just      *)
(* retired the session again, or left it as it was.                        *)
LEMMA RetiredStep ==
  ASSUME TypeOK, Flow, Counted, RetiredInv, RetiredIsFlagged, [Next]_vars
  PROVE  RetiredInv' /\ RetiredIsFlagged'
<1>0. ASSUME routed' PROVE RetiredInv' /\ RetiredIsFlagged'
  BY <1>0 DEF RetiredInv, RetiredIsFlagged
<1>1. ASSUME gone', Flagged' PROVE RetiredInv' /\ RetiredIsFlagged'
  BY <1>1 DEF RetiredInv, RetiredIsFlagged, Flagged
<1>2. ASSUME Ends("broken"), gone' = gone, routed' = routed \/ gone
      PROVE  RetiredInv' /\ RetiredIsFlagged'
  <2>1. at' = "idle" /\ outcome' = "broken" BY <1>2, EndsEffect
  <2>2. CASE ~routed'
    <3>1. gone'
      <4>1. CASE gone BY <1>2, <4>1
      <4>2. CASE routed' = routed
        <5>1. ~routed BY <2>2, <4>2
        <5>2. gone BY <5>1 DEF RetiredInv
        <5>. QED BY <1>2, <5>2
      <4>. QED BY <1>2, <4>1, <4>2
    <3>. QED BY <2>1, <3>1 DEF RetiredInv, RetiredIsFlagged
  <2>. QED BY <1>0, <2>2
<1>3. ASSUME NEW new \in Snapshots, SaveAndShow(new), gone' = gone
      PROVE  RetiredInv' /\ RetiredIsFlagged'
  <2>1. CASE gone
    <3>1. Flagged' BY <1>3, <2>1, ShownEffect DEF Flagged
    <3>. QED BY <1>1, <1>3, <2>1, <3>1
  <2>2. CASE ~gone
    <3>1. routed' = routed BY <1>3, <2>2, ShownEffect
    <3>2. routed BY <2>2 DEF RetiredInv
    <3>. QED BY <1>0, <3>1, <3>2
  <2>. QED BY <2>1, <2>2
<1>4. ASSUME NEW new \in Snapshots, NEW result, SaveAndEnd(new, result), gone' = gone
      PROVE  RetiredInv' /\ RetiredIsFlagged'
  <2>1. CASE SaveAndShow(new) BY <1>3, <1>4, <2>1
  <2>2. CASE SaveFails(new) /\ Ends("broken") BY <1>2, <1>4, <2>2, FailsEffect
  <2>. QED BY <1>4, <2>1, <2>2 DEF SaveAndEnd
<1>5. CASE Owes BY <1>4, <1>5, OwesEffect
<1>6. CASE Clear
  <2>1. CASE Ends("resolved") /\ UNCHANGED <<snap, record, routed, session, torn, faults>>
    <3>1. at = "decide" /\ gone' = gone BY <1>6, ClearEffect
    <3>2. CASE routed BY <1>0, <2>1, <3>2
    <3>3. CASE ~routed BY <1>1, <2>1, <3>1, <3>3 DEF RetiredInv, Flagged
    <3>. QED BY <3>2, <3>3
  <2>. QED BY <1>4, <1>6, <2>1, ClearEffect
<1>7. CASE Leaves
  <2>1. UNCHANGED <<snap, record, session, routed, gone>> BY <1>7, LeavesEffect
  <2>2. CASE Ends("broken") BY <1>2, <2>1, <2>2
  <2>3. CASE at = "decide" /\ ~routed BY <1>1, <2>1, <2>3 DEF RetiredInv, Flagged
  <2>. QED BY <1>0, <1>7, <2>1, <2>2, <2>3, LeavesEffect
<1>8. CASE ReplyEnds
  <2>1. UNCHANGED <<routed, gone>> BY <1>8, ReplyEffect
  <2>2. CASE at' = "deliver" /\ queue' = said /\ UNCHANGED <<how, said>>
    BY <1>8, <2>1, <2>2, ReplyEffect DEF RetiredInv, RetiredIsFlagged, TypeOK
  <2>. QED BY <1>2, <1>8, <2>1, <2>2, ReplyEffect
<1>9. ASSUME NEW t \in Texts, Projects(t) PROVE RetiredInv' /\ RetiredIsFlagged'
  <2>1. Projected(t) \in Snapshots BY ProjectedType DEF TypeOK
  <2>2. gone' = gone BY <1>9, ProjectsEffect
  <2>3. CASE SaveAndShow(Projected(t)) BY <1>3, <2>1, <2>2, <2>3
  <2>4. CASE SaveFails(Projected(t)) /\ Ends("broken") BY <1>2, <2>2, <2>4, FailsEffect
  <2>5. CASE SaveFails(Projected(t)) /\ at = "turn" /\ Streaming /\ badStream' /\ UNCHANGED <<at, how>>
    <3>1. routed' = routed \/ gone BY <2>5, FailsEffect
    <3>. QED BY <2>2, <2>5, <3>1 DEF RetiredInv, RetiredIsFlagged
  <2>. QED BY <1>9, <2>3, <2>4, <2>5, ProjectsEffect
<1>10. ASSUME NEW t \in Texts, Replies(t) PROVE RetiredInv' /\ RetiredIsFlagged'
  <2>1. gone' = gone BY <1>10, RepliesEffect
  <2>2. PICK new \in Snapshots : SaveAndShow(new) \/ (SaveFails(new) /\ Ends("broken"))
    BY <1>10, RepliesEffect
  <2>. QED BY <1>2, <1>3, <2>1, <2>2, FailsEffect
<1>11. ASSUME NEW t \in Texts, AgentSays(t) PROVE RetiredInv' /\ RetiredIsFlagged'
  BY <1>11 DEF AgentSays, RetiredInv, RetiredIsFlagged, Flagged
<1>12. CASE HumanMessage
  <2>1. routed' BY <1>12 DEF HumanMessage
  <2>. QED BY <1>0, <2>1
<1>13. CASE TopicIsDeleted \/ UNCHANGED vars
  BY <1>13 DEF TopicIsDeleted, RetiredInv, RetiredIsFlagged, Flagged
<1>14. CASE StartEnds \/ ResumeEnds
  <2>1. /\ at = "turn" /\ how # "reply" /\ ~badStream /\ at' = "deliver"
        /\ UNCHANGED <<routed, gone, snap, session>> /\ record' \in {record, session}
    BY <1>14 DEF StartEnds, ResumeEnds
  <2>2. CASE ~routed BY <1>1, <2>1, <2>2 DEF RetiredInv, Flagged
  <2>. QED BY <1>0, <2>1, <2>2
<1>15. CASE Message
  <2>1. at = "deliver" /\ queue = <<>> /\ gone' = gone BY <1>15, MessageEffect
  <2>2. CASE (~gone \/ said # <<>>) /\ UNCHANGED <<files, session>>
    <3>1. CASE ~routed
      <4>1. gone /\ said # <<>> BY <2>2, <3>1 DEF RetiredInv
      <4>2. Len(queue) < Len(said) BY <2>1, <4>1 DEF TypeOK
      <4>. QED BY <1>1, <2>1, <2>2, <3>1, <4>1, <4>2 DEF RetiredInv, Flagged
    <3>. QED BY <1>0, <2>2, <3>1
  <2>3. CASE Retires(snap) /\ gone
    BY <1>1, <2>1, <2>3, RetireEffect DEF Flagged
  <2>4. CASE Ends("broken") /\ gone BY <1>2, <2>1, <2>4
  <2>. QED BY <1>15, <2>2, <2>3, <2>4, MessageEffect
<1>16. CASE TellsOfFailure
  <2>1. at = "idle" /\ UNCHANGED <<at, outcome, gone>> /\ outcome = "broken" BY <1>16, TellsEffect
  <2>2. gone BY <1>16 DEF TellsOfFailure
  <2>. QED BY <2>1, <2>2 DEF RetiredInv, RetiredIsFlagged
<1>17. CASE Breaks BY <1>2, <1>17 DEF Breaks
<1>. QED
  BY <1>5, <1>6, <1>7, <1>8, <1>9, <1>10, <1>11, <1>12, <1>13, <1>14, <1>15, <1>16, <1>17, NextSteps

-----------------------------------------------------------------------------
(* The theorems.                                                           *)

(* The inductive invariant.                                                *)
IInv ==
  /\ TypeOK /\ Flow /\ Counted /\ BudgetBetweenProgress
  /\ OpenIsFlagged /\ OwedIsFlagged /\ Together /\ AttentionClears
  /\ RetiredInv /\ RetiredIsFlagged

(* A new session.                                                          *)
LEMMA InitIInv == Init => IInv
<1>. SUFFICES ASSUME Init PROVE IInv OBVIOUS
<1>1. snap \in Snapshots /\ record \in Records /\ session \in Records /\ loaded \in Snapshots
      /\ snap.attempts = 0 /\ record.attempts = 0 /\ session.attempts = 0
      /\ ~record.human /\ session = record
  BY NewType, RecordType DEF Init
<1>2. said = <<>> /\ queue = <<>> /\ at = "turn" /\ how = "start" /\ spent = 0 /\ faults = 0
      /\ outcome = "none" /\ decided = "idle"
  BY DEF Init
<1>3. torn \in BOOLEAN /\ badStream \in BOOLEAN /\ policy \in BOOLEAN /\ streamed \in BOOLEAN
      /\ ~badStream
  BY Zenon DEF Init
<1>a. routed /\ ~gone /\ tells \in BOOLEAN /\ routed \in BOOLEAN /\ gone \in BOOLEAN
  BY Zenon DEF Init
<1>b. CoreTypes BY <1>1, <1>2, <1>3, EmptyType DEF CoreTypes, SupportStates
<1>4. TypeOK BY <1>a, <1>b, Zenon DEF CoreTypes, TypeOK
<1>5. Flow BY <1>2, <1>3 DEF Flow
<1>6. Counted /\ BudgetBetweenProgress BY <1>1, <1>2, PendingIs DEF Counted, BudgetBetweenProgress
<1>7. ProjectedEvents = 0 BY <1>2 DEF ProjectedEvents
<1>8. OpenIsFlagged BY <1>7 DEF OpenIsFlagged, OpenAmong
<1>9. OwedIsFlagged /\ Together /\ AttentionClears
  BY <1>1, <1>2 DEF OwedIsFlagged, Together, AttentionClears
<1>10. RetiredInv /\ RetiredIsFlagged BY <1>a DEF RetiredInv, RetiredIsFlagged
<1>. QED BY <1>4, <1>5, <1>6, <1>8, <1>9, <1>10 DEF IInv

(* Every step keeps the invariant.                                         *)
LEMMA StepIInv == IInv /\ [Next]_vars => IInv'
BY TypeStep, FlowStep, CountedStep, OpenStep, OwedStep, TogetherStep, AttentionStep, RetiredStep
DEF IInv

(* So it holds of every reachable state.                                   *)
LEMMA Invariance == Spec => []IInv
BY InitIInv, StepIInv, PTL DEF Spec

(* The two files, the handler's copies and the turn are of their types.    *)
THEOREM TypeCorrect == Spec => []TypeOK
BY Invariance, PTL DEF IInv

(* Whatever the agent says and whatever fails, support buys no more turns  *)
(* between two signs of progress than its budget, and one per failure.     *)
THEOREM BudgetHolds == Spec => []BudgetBetweenProgress
BY Invariance, PTL DEF IInv

(* What a delivery leaves to a human is flagged in both files.             *)
THEOREM OwedStaysFlagged == Spec => []OwedIsFlagged
BY Invariance, PTL DEF IInv

(* A turn that ends with nothing to act on clears the request in the       *)
(* record, unless a failed save has left the files apart or the topic      *)
(* turned out to be gone.                                                  *)
THEOREM AttentionIsCleared == Spec => []AttentionClears
BY Invariance, PTL DEF IInv

(* A session found to have no topic asks for a human in both files when    *)
(* its handler is done without an error, whatever else was being saved.    *)
THEOREM RetiredStaysFlagged == Spec => []RetiredIsFlagged
BY Invariance, PTL DEF IInv

=============================================================================
