---------------------------- MODULE Stream_proofs ----------------------------
(***************************************************************************)
(* Safety of a streamed turn for all lines, any number of them and every   *)
(* way the provider, the reader and the handler interleave: the handler    *)
(* never shares the session with the reader, nothing the provider wrote is *)
(* lost but for the 100 ms, and nothing shown waits for an answer unseen.  *)
(***************************************************************************)
EXTENDS Stream, FiniteSetTheorems, WellFoundedInduction, TLAPS

(* Once the handler waits no longer the process is gone, and beyond Runner *)
(* the reader is; the outcome is known at the end only.                    *)
TurnInv ==
  /\ turn # "waiting" => proc = "exited"
  /\ turn # "over" => outcome = "none"
  /\ HandlerHasTheSession

(* A reader that was done in time has read everything.                     *)
DrainInv ==
  /\ closed \/ late => turn \notin {"waiting", "grace"}
  /\ closed /\ ~late => reader = "done"
  /\ reader = "done" /\ ~late => proc = "exited" /\ taken = Len(written)

(* Until the decision, what was shown are lines that were taken.           *)
ShowsALine(i) ==
  /\ turn # "over" => shown[i].at # 0
  /\ shown[i].at # 0 =>
       /\ shown[i].at <= taken /\ IsEvent(shown[i].at)
       /\ shown[i].text = written[shown[i].at].text

ShownInv == \A i \in 1 .. Len(shown) : ShowsALine(i)

(* A key was seen with a line that was shown.                              *)
SeenWith(k, p, pass) ==
  /\ p # 0 /\ k \in Keys(p, pass)
  /\ \E i \in 1 .. Len(shown) : shown[i].at = p

SeenInv ==
  \A k \in seen :
    \E p \in 1 .. Len(written), pass \in {"stream", "result"} : SeenWith(k, p, pass)

(* Item ids do not come back.                                              *)
UniqueInv ==
  \A p, q \in 1 .. Len(written) :
    IsEvent(p) /\ IsEvent(q) /\ written[p].id = written[q].id /\ written[p].id # NoId => p = q

(* The news of a line is in the topic.                                     *)
Told(p) ==
  \E i \in 1 .. Len(shown) :
    \/ shown[i].at = p
    \/ shown[i].text = written[p].text /\ KindAt(p) \in SemanticTypes

ToldInv == \A p \in 1 .. taken : IsEvent(p) => Told(p)

(* A line that was taken has left its semantic key.                        *)
SemanticKey(p) == <<"semantic", KindAt(p), "streamed", written[p].text>>

TakenInv ==
  \A p \in 1 .. taken : IsEvent(p) /\ KindAt(p) \in SemanticTypes => SemanticKey(p) \in seen

(* No line before one that was shown has its text, if the text matters.    *)
First(p) == \A q \in 1 .. p - 1 : IsEvent(q) => written[q].text # written[p].text

FirstInv ==
  \A i \in 1 .. Len(shown) :
    shown[i].at # 0 /\ KindAt(shown[i].at) \in SemanticTypes => First(shown[i].at)

(* What was shown was marked, in one pass or the other.                    *)
MarkedInv ==
  \A i \in 1 .. Len(shown) :
    shown[i].at # 0 => \E pass \in {"stream", "result"} : Keys(shown[i].at, pass) \subseteq seen

(* The inductive invariant.                                                *)
StreamInv ==
  /\ StreamTypeOK /\ TurnInv /\ DrainInv
  /\ ShownInv /\ SeenInv /\ UniqueInv /\ ToldInv
  /\ TakenInv /\ FirstInv /\ MarkedInv
  /\ ShownOnce /\ ShownIsActedOn

USE LinesAreRecords, LongLineIsNoEvent, MaxLinesIsNatural, KindsAreEventTypes
USE DEF streamVars, provider, reading, handling

-----------------------------------------------------------------------------
(* A set of naturals has a least element.                                  *)
LEMMA LeastOf ==
  ASSUME NEW S \in SUBSET Nat, S # {}
  PROVE  \E n \in S : \A m \in S : n <= m
<1>. DEFINE Below == {0 .. n : n \in S}
<1>1. Below \subseteq FiniteSubsetsOf(Nat)
  <2>1. ASSUME NEW n \in S PROVE 0 .. n \in FiniteSubsetsOf(Nat)
    BY FS_Interval, 0 .. n \subseteq Nat DEF FiniteSubsetsOf
  <2>. QED BY <2>1
<1>2. PICK X \in Below : \A Y \in Below : ~(<<Y, X>> \in StrictSubsetOrdering(Nat))
  <2>1. Below # {} OBVIOUS
  <2>. HIDE DEF Below
  <2>. QED BY <1>1, <2>1, FS_StrictSubsetOrderingWellFounded, WFMin
<1>3. PICK n \in S : X = 0 .. n BY <1>2
<1>4. ASSUME NEW m \in S, m < n PROVE FALSE
  <2>1. 0 .. m \subseteq 0 .. n /\ 0 .. m # 0 .. n /\ 0 .. n \subseteq Nat BY <1>4
  <2>2. <<0 .. m, 0 .. n>> \in StrictSubsetOrdering(Nat) BY <2>1 DEF StrictSubsetOrdering
  <2>. QED BY <1>2, <1>3, <2>2
<1>. QED BY <1>4

(* Events with a key in common are of one kind, and have one id or, of the *)
(* types that matter, one text (Deduper).                                  *)
LEMMA SharedKey ==
  ASSUME NEW p, NEW q, NEW a, NEW b, NEW k, k \in Keys(p, a), k \in Keys(q, b)
  PROVE  /\ IsEvent(p) /\ IsEvent(q) /\ KindAt(p) = KindAt(q)
         /\ \/ written[p].id = written[q].id /\ written[p].id # NoId
            \/ written[p].text = written[q].text /\ KindAt(p) \in SemanticTypes
<1>1. IsEvent(p) /\ IsEvent(q) BY DEF Keys
<1>2. CASE k \in {<<"delivery", KindAt(p), id>> : id \in {written[p].id} \ {NoId}}
  <2>1. k[1] = "delivery" BY <1>2
  <2>2. k \in {<<"delivery", KindAt(q), id>> : id \in {written[q].id} \ {NoId}}
    BY <1>1, <2>1 DEF Keys
  <2>. QED BY <1>1, <1>2, <2>2
<1>3. CASE k \in {<<"semantic", kind, RunOf(a), written[p].text>> :
                    kind \in {KindAt(p)} \cap SemanticTypes}
  <2>1. k[1] = "semantic" BY <1>3
  <2>2. k \in {<<"semantic", kind, RunOf(b), written[q].text>> :
                 kind \in {KindAt(q)} \cap SemanticTypes}
    BY <1>1, <2>1 DEF Keys
  <2>. QED BY <1>1, <1>3, <2>2
<1>. QED BY <1>1, <1>2, <1>3 DEF Keys

-----------------------------------------------------------------------------
(* Types.                                                                  *)
LEMMA InitTypeOK == StreamInit => StreamTypeOK
<1>. SUFFICES ASSUME StreamInit PROVE StreamTypeOK OBVIOUS
<1>1. written \in Seq(Lines \cup {LongLine}) /\ Len(written) = 0 BY DEF StreamInit
<1>2. shown \in Seq([at : 0 .. MaxLines, text : Texts])
  <2>. DEFINE Entries == [at : 0 .. MaxLines, text : Texts]
  <2>. HIDE DEF Entries
  <2>1. shown \in Seq(Entries) BY DEF StreamInit
  <2>. QED BY <2>1 DEF Entries
<1>3. fetched \in 0 .. Len(written) /\ taken \in 0 .. fetched /\ Len(written) <= MaxLines
  BY <1>1 DEF StreamInit
<1>4. pos \in 0 .. MaxLines BY DEF StreamInit
<1>5. how \in {"start", "resume"} /\ proc = "running" /\ accepted = FALSE /\ closed = FALSE
      /\ late = FALSE /\ streamErr = FALSE /\ reader = "reading" /\ turn = "waiting"
      /\ outcome = "none"
  BY DEF StreamInit
<1>. QED BY <1>1, <1>2, <1>3, <1>4, <1>5 DEF StreamTypeOK

LEMMA EventText ==
  ASSUME StreamTypeOK, NEW p \in 1 .. Len(written), IsEvent(p)
  PROVE  written[p] \in Lines /\ written[p].text \in Texts
BY DEF StreamTypeOK, IsEvent

LEMMA StepTypeOK == StreamTypeOK /\ [StreamNext]_streamVars => StreamTypeOK'
<1>. SUFFICES ASSUME StreamTypeOK, [StreamNext]_streamVars PROVE StreamTypeOK'
  OBVIOUS
<1>. USE DEF StreamTypeOK
<1>1. ASSUME NEW l \in Lines \cup {LongLine}, Writes(l) PROVE StreamTypeOK'
  BY <1>1 DEF Writes
<1>2. CASE Exits BY <1>2 DEF Exits
<1>3. CASE Fetch BY <1>3 DEF Fetch
<1>4. CASE PassOver BY <1>4 DEF PassOver, Take
<1>5. CASE ShowLine
  <2>1. [at |-> taken', text |-> written[taken'].text] \in [at : 0 .. MaxLines, text : Texts]
    BY <1>5, EventText DEF ShowLine, Take
  <2>. QED BY <1>5, <2>1 DEF ShowLine, Take, Show
<1>6. ASSUME NEW ok \in BOOLEAN, LineShown(ok) PROVE StreamTypeOK'
  BY <1>6 DEF LineShown
<1>7. CASE EndOfOutput BY <1>7 DEF EndOfOutput
<1>8. CASE WaitReturns BY <1>8 DEF WaitReturns
<1>9. CASE Joined BY <1>9 DEF Joined
<1>10. CASE GraceExpires BY <1>10 DEF GraceExpires
<1>11. CASE TurnFails BY <1>11 DEF TurnFails, Ends
<1>12. ASSUME NEW ok \in BOOLEAN, TurnAccepted(ok) PROVE StreamTypeOK'
  BY <1>12 DEF TurnAccepted, Ends
<1>13. ASSUME NEW p \in 1 .. MaxLines, SkipResult(p) PROVE StreamTypeOK'
  BY <1>13 DEF SkipResult
<1>14. ASSUME NEW p \in 1 .. MaxLines, ShowResult(p) PROVE StreamTypeOK'
  <2>1. p \in 1 .. Len(written) /\ IsEvent(p)
    BY <1>14 DEF ShowResult, IsNext, Unvisited, Normalized, Scanned
  <2>2. [at |-> p, text |-> written[p].text] \in [at : 0 .. MaxLines, text : Texts]
    BY <2>1, EventText
  <2>. QED BY <1>14, <2>2 DEF ShowResult, Show
<1>15. ASSUME NEW ok \in BOOLEAN, ResultShown(ok) PROVE StreamTypeOK'
  BY <1>15 DEF ResultShown, Ends
<1>16. CASE Decide
  <2>1. \A m \in LastMessage : [at |-> 0, text |-> m] \in [at : 0 .. MaxLines, text : Texts]
    BY EventText DEF LastMessage, Messages
  <2>2. shown' = shown \/ \E m \in LastMessage : shown' = Append(shown, [at |-> 0, text |-> m])
    BY <1>16 DEF Decide, Show
  <2>. DEFINE Entries == [at : 0 .. MaxLines, text : Texts]
  <2>3. shown' \in Seq(Entries)
    <3>1. shown \in Seq(Entries) /\ \A m \in LastMessage : [at |-> 0, text |-> m] \in Entries
      BY <2>1
    <3>2. ASSUME NEW m \in LastMessage PROVE Append(shown, [at |-> 0, text |-> m]) \in Seq(Entries)
      <4>1. [at |-> 0, text |-> m] \in Entries BY <3>1
      <4>. DEFINE e == [at |-> 0, text |-> m]
      <4>. HIDE DEF Entries, e
      <4>. QED BY <3>1, <4>1 DEF e
    <3>. QED BY <2>2, <3>1, <3>2
  <2>. QED BY <1>16, <2>3 DEF Decide, Ends
<1>17. CASE UNCHANGED streamVars BY <1>17
<1>. QED
  BY <1>1, <1>2, <1>3, <1>4, <1>5, <1>6, <1>7, <1>8, <1>9, <1>10, <1>11, <1>12, <1>13,
     <1>14, <1>15, <1>16, <1>17
  DEF StreamNext, ProviderNext, ReaderNext, HandlerNext, Showing, Shown
-----------------------------------------------------------------------------
(* The places of the three actors.                                         *)
LEMMA StepTurnInv == TurnInv /\ [StreamNext]_streamVars => TurnInv'
<1>. USE DEF TurnInv, HandlerHasTheSession
<1>. SUFFICES ASSUME TurnInv, [StreamNext]_streamVars PROVE TurnInv' OBVIOUS
<1>1. CASE ProviderNext BY <1>1 DEF ProviderNext, Writes, Exits
<1>2. CASE ReaderNext BY <1>2 DEF ReaderNext, Fetch, PassOver, Take, EndOfOutput
<1>3. CASE HandlerNext
  BY <1>3 DEF HandlerNext, WaitReturns, Joined, GraceExpires, TurnFails,
              SkipResult, Decide, Ends
<1>4. CASE Showing BY <1>4 DEF Showing, ShowLine, Take, ShowResult
<1>5. CASE \E ok \in BOOLEAN : Shown(ok) \/ TurnAccepted(ok)
  BY <1>5 DEF Shown, LineShown, ResultShown, TurnAccepted, Ends
<1>6. CASE UNCHANGED streamVars BY <1>6
<1>. QED BY <1>1, <1>2, <1>3, <1>4, <1>5, <1>6 DEF StreamNext

LEMMA StepDrainInv ==
  StreamTypeOK /\ TurnInv /\ DrainInv /\ [StreamNext]_streamVars => DrainInv'
<1>. USE DEF TurnInv, HandlerHasTheSession, DrainInv
<1>. SUFFICES ASSUME StreamTypeOK, TurnInv, DrainInv, [StreamNext]_streamVars PROVE DrainInv'
  OBVIOUS
<1>1. CASE ProviderNext BY <1>1 DEF ProviderNext, Writes, Exits
<1>2. CASE ReaderNext BY <1>2 DEF ReaderNext, Fetch, PassOver, Take, EndOfOutput
<1>3. CASE WaitReturns \/ Joined BY <1>3 DEF WaitReturns, Joined
<1>4. CASE GraceExpires BY <1>4 DEF GraceExpires
<1>5. CASE TurnFails \/ Decide BY <1>5 DEF TurnFails, Decide, Ends
<1>6. ASSUME NEW p \in 1 .. MaxLines, SkipResult(p) PROVE DrainInv' BY <1>6 DEF SkipResult
<1>7. CASE Showing BY <1>7 DEF Showing, ShowLine, Take, ShowResult
<1>8. CASE \E ok \in BOOLEAN : Shown(ok) \/ TurnAccepted(ok)
  BY <1>8 DEF Shown, LineShown, ResultShown, TurnAccepted, Ends
<1>9. CASE UNCHANGED streamVars BY <1>9
<1>. QED BY <1>1, <1>2, <1>3, <1>4, <1>5, <1>6, <1>7, <1>8, <1>9 DEF StreamNext, HandlerNext
-----------------------------------------------------------------------------
(* What a step keeps: nothing written, taken or shown goes away, and the   *)
(* keys of a line stay what they are.                                      *)
Prefix(s, t) == Len(s) <= Len(t) /\ \A i \in 1 .. Len(s) : t[i] = s[i]

LEMMA AppendKeeps ==
  ASSUME NEW S, NEW s \in Seq(S), NEW e
  PROVE  /\ Prefix(s, s) /\ Prefix(s, Append(s, e))
         /\ Len(Append(s, e)) = Len(s) + 1 /\ Append(s, e)[Len(s) + 1] = e
BY DEF Prefix

LEMMA Kept ==
  ASSUME StreamTypeOK, [StreamNext]_streamVars
  PROVE  /\ how' = how /\ Prefix(written, written') /\ Prefix(shown, shown')
         /\ taken <= taken' /\ (turn = "over" => turn' = "over")
         /\ turn # "waiting" /\ proc = "exited" => written' = written
<1>1. Prefix(written, written) /\ Prefix(shown, shown)
      /\ \A e : Prefix(written, Append(written, e)) /\ Prefix(shown, Append(shown, e))
  <2>. DEFINE Entries == [at : 0 .. MaxLines, text : Texts]
              All == Lines \cup {LongLine}
  <2>1. written \in Seq(All) /\ shown \in Seq(Entries) BY DEF StreamTypeOK
  <2>. HIDE DEF Entries, All
  <2>2. Prefix(written, written) /\ \A e : Prefix(written, Append(written, e)) BY <2>1, AppendKeeps
  <2>3. Prefix(shown, shown) /\ \A e : Prefix(shown, Append(shown, e)) BY <2>1, AppendKeeps
  <2>. QED BY <2>2, <2>3
<1>2. taken \in Nat /\ taken <= taken BY DEF StreamTypeOK
<1>3. CASE ProviderNext BY <1>1, <1>2, <1>3 DEF ProviderNext, Writes, Exits
<1>4. CASE ReaderNext BY <1>1, <1>2, <1>4 DEF ReaderNext, Fetch, PassOver, Take, EndOfOutput
<1>5. CASE HandlerNext /\ ~Decide
  BY <1>1, <1>2, <1>5 DEF HandlerNext, WaitReturns, Joined, GraceExpires, TurnFails,
                    SkipResult, Ends
<1>6. CASE Decide
  <2>1. Prefix(shown, shown') BY <1>1, <1>6 DEF Decide, Show
  <2>. QED BY <1>1, <1>2, <1>6, <2>1 DEF Decide, Ends
<1>7. CASE Showing
  <2>1. CASE ShowLine BY <1>1, <1>2, <2>1 DEF ShowLine, Take, Show
  <2>2. ASSUME NEW p \in 1 .. MaxLines, ShowResult(p) PROVE Prefix(shown, shown')
    BY <1>1, <2>2 DEF ShowResult, Show
  <2>3. ASSUME NEW p \in 1 .. MaxLines, ShowResult(p)
        PROVE  how' = how /\ written' = written /\ taken' = taken /\ turn # "over"
    BY <2>3 DEF ShowResult
  <2>. QED BY <1>1, <1>2, <1>7, <2>1, <2>2, <2>3 DEF Showing
<1>8. CASE \E ok \in BOOLEAN : Shown(ok) \/ TurnAccepted(ok)
  BY <1>1, <1>2, <1>8 DEF Shown, LineShown, ResultShown, TurnAccepted, Ends
<1>9. CASE UNCHANGED streamVars BY <1>1, <1>2, <1>9
<1>. QED BY <1>3, <1>4, <1>5, <1>6, <1>7, <1>8, <1>9 DEF StreamNext

LEMMA LineKept ==
  ASSUME StreamTypeOK, [StreamNext]_streamVars, NEW p \in 1 .. Len(written)
  PROVE  /\ p \in 1 .. Len(written') /\ written'[p] = written[p]
         /\ IsEvent(p)' = IsEvent(p) /\ KindAt(p)' = KindAt(p)
         /\ \A pass : Keys(p, pass)' = Keys(p, pass)
<1>1. how' = how /\ p \in 1 .. Len(written') /\ written'[p] = written[p]
  BY Kept DEF Prefix, StreamTypeOK
<1>2. IsEvent(p)' = IsEvent(p) /\ KindAt(p)' = KindAt(p) BY <1>1 DEF IsEvent, KindAt
<1>3. ASSUME NEW pass PROVE Keys(p, pass)' = Keys(p, pass)
  <2>1. RunOf(pass)' = RunOf(pass) BY <1>1 DEF RunOf
  <2>. QED BY <1>1, <1>2, <2>1 DEF Keys
<1>. QED BY <1>1, <1>2, <1>3

(* What a step adds: a line that is an event, was taken and is new, with   *)
(* its keys, or the message of the decision.                               *)
AddsLine(p, pass) ==
  /\ p \in 1 .. taken' /\ IsEvent(p) /\ IsNew(p, pass) /\ turn # "over"
  /\ pass = "stream" => p = taken + 1
  /\ pass = "result" => p \in Normalized
  /\ written' = written /\ how' = how
  /\ shown' = Append(shown, [at |-> p, text |-> written[p].text])
  /\ seen' = seen \cup Keys(p, pass)

LEMMA Added ==
  ASSUME StreamTypeOK, TurnInv, [StreamNext]_streamVars
  PROVE  \/ shown' = shown /\ seen' = seen
         \/ \E p \in 1 .. MaxLines, pass \in {"stream", "result"} : AddsLine(p, pass)
         \/ Decide
<1>1. CASE ProviderNext BY <1>1 DEF ProviderNext, Writes, Exits
<1>2. CASE ReaderNext BY <1>2 DEF ReaderNext, Fetch, PassOver, Take, EndOfOutput
<1>3. CASE HandlerNext /\ ~Decide
  BY <1>3 DEF HandlerNext, WaitReturns, Joined, GraceExpires, TurnFails,
              SkipResult, Ends
<1>4. CASE ShowLine
  <2>1. taken' \in 1 .. MaxLines /\ taken' \in 1 .. taken' BY <1>4 DEF ShowLine, Take, StreamTypeOK
  <2>2. turn # "over" BY <1>4 DEF ShowLine, Take, TurnInv, HandlerHasTheSession
  <2>3. AddsLine(taken', "stream") BY <1>4, <2>1, <2>2 DEF ShowLine, Take, Show, Mark, AddsLine
  <2>. QED BY <2>1, <2>3
<1>5. ASSUME NEW p \in 1 .. MaxLines, ShowResult(p) PROVE AddsLine(p, "result")
  <2>1. p \in 1 .. taken' /\ IsEvent(p) /\ p \in Normalized
    BY <1>5 DEF ShowResult, IsNext, Unvisited, Normalized, Scanned, StreamTypeOK
  <2>. QED BY <1>5, <2>1 DEF ShowResult, Show, Mark, AddsLine
<1>6. CASE \E ok \in BOOLEAN : Shown(ok) \/ TurnAccepted(ok)
  BY <1>6 DEF Shown, LineShown, ResultShown, TurnAccepted, Ends
<1>7. CASE UNCHANGED streamVars BY <1>7
<1>. QED BY <1>1, <1>2, <1>3, <1>4, <1>5, <1>6, <1>7 DEF StreamNext, Showing
-----------------------------------------------------------------------------
(* The history.                                                            *)
LEMMA EntryTypes ==
  ASSUME StreamTypeOK, NEW i \in 1 .. Len(shown)
  PROVE  shown[i].at \in 0 .. MaxLines /\ shown[i].text \in Texts
<1>. DEFINE Entries == [at : 0 .. MaxLines, text : Texts]
<1>1. shown[i] \in Entries
  <2>1. shown \in Seq(Entries) BY DEF StreamTypeOK
  <2>. HIDE DEF Entries
  <2>. QED BY <2>1
<1>. QED BY <1>1

LEMMA LastEntry ==
  ASSUME StreamTypeOK, NEW e, shown' = Append(shown, e)
  PROVE  /\ 1 .. Len(shown') = 1 .. Len(shown) \cup {Len(shown) + 1}
         /\ shown'[Len(shown) + 1] = e
<1>. DEFINE Entries == [at : 0 .. MaxLines, text : Texts]
<1>1. shown \in Seq(Entries) BY DEF StreamTypeOK
<1>. HIDE DEF Entries
<1>2. Len(shown) \in Nat BY <1>1
<1>3. Len(shown') = Len(shown) + 1 /\ shown'[Len(shown) + 1] = e BY <1>1, AppendKeeps
<1>. QED BY <1>2, <1>3

(* An entry that names a line names one that was written.                  *)
LEMMA EntryInLine ==
  ASSUME StreamTypeOK, ShownInv, NEW i \in 1 .. Len(shown), shown[i].at # 0
  PROVE  shown[i].at \in 1 .. Len(written)
<1>1. shown[i].at \in 0 .. MaxLines BY EntryTypes
<1>2. taken \in Nat /\ taken <= Len(written) /\ Len(written) \in Nat BY DEF StreamTypeOK
<1>. QED BY <1>1, <1>2 DEF ShownInv, ShowsALine

LEMMA StepShownInv ==
  ASSUME StreamTypeOK, TurnInv, ShownInv, [StreamNext]_streamVars
  PROVE  ShownInv'
<1>. SUFFICES ASSUME NEW i \in 1 .. Len(shown') PROVE ShowsALine(i)'
  BY DEF ShownInv
<1>1. CASE i \in 1 .. Len(shown)
  <2>1. shown'[i] = shown[i] /\ taken <= taken' /\ (turn' # "over" => turn # "over")
    BY <1>1, Kept DEF Prefix
  <2>2. CASE shown[i].at # 0
    <3>1. shown[i].at <= taken /\ IsEvent(shown[i].at) /\ shown[i].text = written[shown[i].at].text
      BY <1>1, <2>2 DEF ShownInv, ShowsALine
    <3>2. shown[i].at \in 1 .. Len(written) BY <1>1, <2>2, EntryInLine
    <3>3. written'[shown[i].at] = written[shown[i].at] BY <3>2, LineKept
    <3>4. taken' \in Nat /\ taken \in Nat BY StepTypeOK DEF StreamTypeOK
    <3>. QED BY <2>1, <2>2, <3>1, <3>2, <3>3, <3>4 DEF ShowsALine, IsEvent
  <2>. QED BY <1>1, <2>1, <2>2 DEF ShownInv, ShowsALine
<1>2. CASE i \notin 1 .. Len(shown)
  <2>1. ASSUME NEW e, shown' = Append(shown, e) PROVE shown'[i] = e
    BY <1>2, <2>1, LastEntry
  <2>2. ASSUME NEW p \in 1 .. MaxLines, NEW pass, AddsLine(p, pass) PROVE ShowsALine(i)'
    <3>1. shown'[i] = [at |-> p, text |-> written[p].text] BY <2>1, <2>2 DEF AddsLine
    <3>2. shown'[i].at = p /\ shown'[i].text = written'[p].text /\ p # 0 /\ p <= taken'
          /\ written'[p] # LongLine
      BY <2>2, <3>1 DEF AddsLine, IsEvent
    <3>. QED BY <3>2 DEF ShowsALine, IsEvent
  <2>3. CASE Decide
    <3>1. PICK m : shown' = Append(shown, [at |-> 0, text |-> m])
      BY <1>2, <2>3 DEF Decide, Show
    <3>2. shown'[i] = [at |-> 0, text |-> m] BY <2>1, <3>1
    <3>. QED BY <2>3, <3>2 DEF Decide, Ends, ShowsALine
  <2>. QED BY <1>2, <2>2, <2>3, Added
<1>. QED BY <1>1, <1>2

LEMMA StepSeenInv ==
  ASSUME StreamTypeOK, TurnInv, SeenInv, [StreamNext]_streamVars
  PROVE  SeenInv'
<1>. SUFFICES ASSUME NEW k \in seen'
              PROVE  \E p \in 1 .. Len(written'), pass \in {"stream", "result"} :
                       SeenWith(k, p, pass)'
  BY DEF SeenInv
<1>1. CASE k \in seen
  <2>1. PICK p \in 1 .. Len(written), pass \in {"stream", "result"} : SeenWith(k, p, pass)
    BY <1>1 DEF SeenInv
  <2>2. PICK i \in 1 .. Len(shown) : shown[i].at = p BY <2>1 DEF SeenWith
  <2>3. Len(shown) \in Nat /\ Len(shown') \in Nat BY StepTypeOK DEF StreamTypeOK
  <2>4. i \in 1 .. Len(shown') /\ shown'[i] = shown[i] BY <2>3, Kept DEF Prefix
  <2>5. p \in 1 .. Len(written') /\ Keys(p, pass)' = Keys(p, pass) BY LineKept
  <2>. QED BY <2>1, <2>2, <2>4, <2>5 DEF SeenWith
<1>2. CASE k \notin seen
  <2>1. ~(shown' = shown /\ seen' = seen) /\ ~Decide BY <1>2 DEF Decide
  <2>2. PICK p \in 1 .. MaxLines, pass \in {"stream", "result"} : AddsLine(p, pass)
    BY <2>1, Added
  <2>3. Len(shown) + 1 \in 1 .. Len(shown') /\ shown'[Len(shown) + 1].at = p
    BY <2>2, LastEntry DEF AddsLine
  <2>4. Keys(p, pass)' = Keys(p, pass) BY <2>2 DEF AddsLine, Keys, RunOf, IsEvent, KindAt
  <2>5. k \in Keys(p, pass) BY <1>2, <2>2 DEF AddsLine
  <2>6. p \in 1 .. Len(written') BY <2>2, StepTypeOK DEF AddsLine, StreamTypeOK
  <2>. QED BY <2>2, <2>3, <2>4, <2>5, <2>6 DEF SeenWith
<1>. QED BY <1>1, <1>2

LEMMA StepUniqueInv ==
  ASSUME StreamTypeOK, UniqueInv, [StreamNext]_streamVars
  PROVE  UniqueInv'
<1>1. CASE written' = written BY <1>1 DEF UniqueInv, IsEvent
<1>2. CASE \E l \in Lines \cup {LongLine} : Writes(l)
  <2>1. PICK l \in Lines \cup {LongLine} : Writes(l) BY <1>2
  <2>2. written' = Append(written, l) /\ (l # LongLine => Fresh(l)) BY <2>1 DEF Writes
  <2>3. Len(written') = Len(written) + 1 /\ Len(written) \in Nat
        /\ written'[Len(written) + 1] = l /\ \A p \in 1 .. Len(written) : written'[p] = written[p]
    BY <2>2 DEF StreamTypeOK
  <2>4. \A p \in 1 .. Len(written) :
          l # LongLine /\ IsEvent(p) /\ l.id # NoId => written[p].id # l.id
    BY <2>2 DEF Fresh, StreamTypeOK
  <2>5. \A p \in 1 .. Len(written') : p \in 1 .. Len(written) \/ p = Len(written) + 1 BY <2>3
  <2>6. SUFFICES ASSUME NEW p \in 1 .. Len(written'), NEW q \in 1 .. Len(written'),
                        IsEvent(p)', IsEvent(q)', written'[p].id = written'[q].id,
                        written'[p].id # NoId
                 PROVE  p = q
    BY DEF UniqueInv
  <2>7. CASE p \in 1 .. Len(written) /\ q \in 1 .. Len(written)
    BY <2>3, <2>6, <2>7 DEF UniqueInv, IsEvent
  <2>8. CASE p = Len(written) + 1 /\ q \in 1 .. Len(written)
    BY <2>3, <2>4, <2>6, <2>8 DEF IsEvent
  <2>9. CASE q = Len(written) + 1 /\ p \in 1 .. Len(written)
    BY <2>3, <2>4, <2>6, <2>9 DEF IsEvent
  <2>. QED BY <2>5, <2>7, <2>8, <2>9
<1>3. CASE Exits BY <1>3, <1>1 DEF Exits
<1>4. CASE ~ProviderNext
  <2>1. written' = written
    BY <1>4 DEF StreamNext, ReaderNext, HandlerNext, Showing, Shown, Fetch, PassOver, EndOfOutput,
      WaitReturns, Joined, GraceExpires, TurnFails, TurnAccepted, Decide, SkipResult, ShowLine,
      ShowResult, LineShown, ResultShown
  <2>. QED BY <1>1, <2>1
<1>. QED BY <1>2, <1>3, <1>4 DEF ProviderNext
-----------------------------------------------------------------------------
(* What is told stays told, and a line the deduper passes over was told.   *)
LEMMA ToldKept ==
  ASSUME StreamTypeOK, [StreamNext]_streamVars, NEW p \in 1 .. Len(written), Told(p)
  PROVE  Told(p)'
<1>1. PICK i \in 1 .. Len(shown) :
        \/ shown[i].at = p
        \/ shown[i].text = written[p].text /\ KindAt(p) \in SemanticTypes
  BY DEF Told
<1>2. Len(shown) \in Nat /\ Len(shown') \in Nat BY StepTypeOK DEF StreamTypeOK
<1>3. i \in 1 .. Len(shown') /\ shown'[i] = shown[i] BY <1>2, Kept DEF Prefix
<1>. QED BY <1>1, <1>3, LineKept DEF Told

LEMMA KnownIsTold ==
  ASSUME StreamTypeOK, ShownInv, SeenInv, UniqueInv,
         NEW p \in 1 .. Len(written), ~IsNew(p, "stream")
  PROVE  Told(p)
<1>1. PICK k : k \in Keys(p, "stream") /\ k \in seen BY DEF IsNew
<1>2. PICK q \in 1 .. Len(written), pass \in {"stream", "result"} : SeenWith(k, q, pass)
  BY <1>1 DEF SeenInv
<1>3. PICK i \in 1 .. Len(shown) : shown[i].at = q BY <1>2 DEF SeenWith
<1>4. k \in Keys(q, pass) BY <1>2 DEF SeenWith
<1>5. CASE written[p].id = written[q].id /\ written[p].id # NoId
  <2>1. p = q BY <1>1, <1>4, <1>5, SharedKey DEF UniqueInv
  <2>. QED BY <1>3, <2>1 DEF Told
<1>6. CASE written[p].text = written[q].text /\ KindAt(p) \in SemanticTypes
  <2>1. shown[i].text = written[q].text BY <1>3 DEF ShownInv, ShowsALine
  <2>. QED BY <1>6, <2>1 DEF Told
<1>. QED BY <1>1, <1>4, <1>5, <1>6, SharedKey

LEMMA StepToldInv ==
  ASSUME StreamTypeOK, TurnInv, ShownInv, SeenInv, UniqueInv, ToldInv, [StreamNext]_streamVars
  PROVE  ToldInv'
<1>. SUFFICES ASSUME NEW p \in 1 .. taken', IsEvent(p)' PROVE Told(p)'
  BY DEF ToldInv
<1>1. taken \in Nat /\ taken <= Len(written) /\ Len(written) \in Nat BY DEF StreamTypeOK
<1>2. CASE p \in 1 .. taken
  <2>1. p \in 1 .. Len(written) BY <1>1, <1>2
  <2>2. IsEvent(p) BY <2>1, LineKept
  <2>. QED BY <1>2, <2>1, <2>2, ToldKept DEF ToldInv
<1>3. CASE p \notin 1 .. taken
  <2>1. PassOver \/ ShowLine
    <3>1. taken' # taken BY <1>3
    <3>. QED BY <3>1 DEF StreamNext, ProviderNext, ReaderNext, HandlerNext, Showing, Shown, Writes,
      Exits, Fetch, EndOfOutput, WaitReturns, Joined, GraceExpires, TurnFails, TurnAccepted, Decide,
      SkipResult, ShowResult, LineShown, ResultShown
  <2>2. taken' = taken + 1 /\ taken' \in 1 .. Len(written) /\ written' = written
    BY <2>1 DEF PassOver, ShowLine, Take, StreamTypeOK
  <2>3. p = taken' BY <1>1, <1>3, <2>2
  <2>4. CASE PassOver
    <3>1. ~IsNew(p, "stream") BY <2>2, <2>3, <2>4 DEF PassOver, IsEvent
    <3>. QED BY <2>2, <2>3, <3>1, KnownIsTold, ToldKept
  <2>5. CASE ShowLine
    <3>1. shown' = Append(shown, [at |-> p, text |-> written[p].text])
      BY <2>3, <2>5 DEF ShowLine, Show
    <3>2. Len(shown) + 1 \in 1 .. Len(shown') /\ shown'[Len(shown) + 1].at = p
      BY <3>1, LastEntry
    <3>. QED BY <3>2 DEF Told
  <2>. QED BY <2>1, <2>4, <2>5
<1>. QED BY <1>2, <1>3
-----------------------------------------------------------------------------
(* Nothing twice.  A line that was taken has left its semantic key, of the *)
(* run of the stream; a line is shown only if none of its keys was seen,   *)
(* and the second pass has the repetitions taken out.  So no line before   *)
(* it has its text, if that matters.                                       *)
LEMMA KeysOf ==
  ASSUME NEW p, NEW pass, IsEvent(p)
  PROVE  /\ written[p].id # NoId => <<"delivery", KindAt(p), written[p].id>> \in Keys(p, pass)
         /\ KindAt(p) \in SemanticTypes =>
              <<"semantic", KindAt(p), RunOf(pass), written[p].text>> \in Keys(p, pass)
BY DEF Keys

LEMMA SeenGrows == StreamTypeOK /\ TurnInv /\ [StreamNext]_streamVars => seen \subseteq seen'
BY Added DEF AddsLine, Decide

LEMMA StepTakenInv ==
  ASSUME StreamTypeOK, TurnInv, ShownInv, SeenInv, UniqueInv, TakenInv, [StreamNext]_streamVars
  PROVE  TakenInv'
<1>. SUFFICES ASSUME NEW p \in 1 .. taken', IsEvent(p)', KindAt(p)' \in SemanticTypes
              PROVE  SemanticKey(p)' \in seen'
  BY DEF TakenInv
<1>1. taken \in Nat /\ taken <= Len(written) /\ Len(written) \in Nat BY DEF StreamTypeOK
<1>2. CASE p \in 1 .. taken
  <2>1. p \in 1 .. Len(written) BY <1>1, <1>2
  <2>2. IsEvent(p) /\ KindAt(p) \in SemanticTypes /\ SemanticKey(p)' = SemanticKey(p)
    BY <2>1, LineKept DEF SemanticKey
  <2>. QED BY <1>2, <2>2, SeenGrows DEF TakenInv
<1>3. CASE p \notin 1 .. taken
  <2>1. PassOver \/ ShowLine
    <3>1. taken' # taken BY <1>3
    <3>. QED BY <3>1 DEF StreamNext, ProviderNext, ReaderNext, HandlerNext, Showing, Shown, Writes,
      Exits, Fetch, EndOfOutput, WaitReturns, Joined, GraceExpires, TurnFails, TurnAccepted, Decide,
      SkipResult, ShowResult, LineShown, ResultShown
  <2>2. taken' = taken + 1 /\ taken' \in 1 .. Len(written) /\ written' = written
    BY <2>1 DEF PassOver, ShowLine, Take, StreamTypeOK
  <2>3. p = taken' /\ p \in 1 .. Len(written) /\ p = taken + 1 BY <1>1, <1>3, <2>2
  <2>4. IsEvent(p) /\ KindAt(p) \in SemanticTypes /\ SemanticKey(p)' = SemanticKey(p)
    BY <2>2 DEF IsEvent, KindAt, SemanticKey
  <2>5. CASE PassOver
    <3>1. PICK k : k \in Keys(p, "stream") /\ k \in seen BY <2>3, <2>4, <2>5 DEF PassOver, IsNew
    <3>2. PICK q \in 1 .. Len(written), pass \in {"stream", "result"} : SeenWith(k, q, pass)
      BY <3>1 DEF SeenInv
    <3>3. q \in 1 .. taken
      <4>1. PICK i \in 1 .. Len(shown) : shown[i].at = q BY <3>2 DEF SeenWith
      <4>. QED BY <1>1, <3>2, <4>1 DEF SeenWith, ShownInv, ShowsALine
    <3>4. k \in Keys(q, pass) BY <3>2 DEF SeenWith
    <3>5. p # q BY <1>1, <2>3, <3>3
    <3>6. IsEvent(q) /\ KindAt(q) = KindAt(p) /\ written[q].text = written[p].text
      BY <2>3, <3>1, <3>4, <3>5, SharedKey DEF UniqueInv
    <3>7. SemanticKey(q) = SemanticKey(p) BY <3>6 DEF SemanticKey
    <3>. QED BY <2>4, <3>3, <3>6, <3>7, SeenGrows DEF TakenInv
  <2>6. CASE ShowLine
    <3>1. SemanticKey(p) \in Keys(p, "stream") BY <2>4, KeysOf DEF SemanticKey, RunOf
    <3>. QED BY <2>3, <2>4, <2>6, <3>1 DEF ShowLine, Mark
  <2>. QED BY <2>1, <2>5, <2>6
<1>. QED BY <1>2, <1>3

LEMMA AddedIsFirst ==
  ASSUME StreamTypeOK, TakenInv,
         NEW p \in 1 .. MaxLines, NEW pass \in {"stream", "result"}, AddsLine(p, pass),
         KindAt(p) \in SemanticTypes
  PROVE  First(p)
<1>. SUFFICES ASSUME NEW q \in 1 .. p - 1, IsEvent(q), written[q].text = written[p].text
              PROVE  FALSE
  BY DEF First
<1>1. IsEvent(p) /\ KindAt(q) = KindAt(p) /\ KindAt(q) \in SemanticTypes BY DEF AddsLine, KindAt
<1>2. CASE pass = "stream"
  <2>1. p = taken + 1 /\ IsNew(p, "stream") BY <1>2 DEF AddsLine
  <2>2. q \in 1 .. taken BY <2>1 DEF StreamTypeOK
  <2>3. SemanticKey(q) \in seen BY <1>1, <2>2 DEF TakenInv
  <2>4. SemanticKey(q) \in Keys(p, "stream") BY <1>1, KeysOf DEF SemanticKey, RunOf
  <2>. QED BY <2>1, <2>3, <2>4 DEF IsNew
<1>3. CASE pass = "result"
  <2>1. p \in Normalized BY <1>3 DEF AddsLine
  <2>2. q \in Scanned /\ q < p BY <2>1 DEF Normalized, Scanned, StreamTypeOK
  <2>3. Keys(q, "result") \cap Keys(p, "result") = {} BY <2>1, <2>2 DEF Normalized
  <2>. DEFINE k == <<"semantic", KindAt(p), RunOf("result"), written[p].text>>
  <2>4. k \in Keys(p, "result") /\ k \in Keys(q, "result") BY <1>1, KeysOf
  <2>. QED BY <2>3, <2>4
<1>. QED BY <1>2, <1>3

LEMMA StepFirstInv ==
  ASSUME StreamTypeOK, TurnInv, ShownInv, TakenInv, FirstInv, [StreamNext]_streamVars
  PROVE  FirstInv'
<1>. SUFFICES ASSUME NEW i \in 1 .. Len(shown'), shown'[i].at # 0,
                     KindAt(shown[i].at)' \in SemanticTypes
              PROVE  First(shown[i].at)'
  BY DEF FirstInv
<1>1. CASE i \in 1 .. Len(shown)
  <2>1. shown'[i] = shown[i] BY <1>1, Kept DEF Prefix
  <2>2. shown[i].at \in 1 .. Len(written) BY <1>1, <2>1, EntryInLine
  <2>3. First(shown[i].at) BY <1>1, <2>1, <2>2, LineKept DEF FirstInv
  <2>4. ASSUME NEW q \in 1 .. shown[i].at - 1, IsEvent(q)'
        PROVE  written'[q].text # written'[shown[i].at].text
    <3>1. q \in 1 .. Len(written) BY <2>2 DEF StreamTypeOK
    <3>. QED BY <2>2, <2>3, <2>4, <3>1, LineKept DEF First
  <2>. QED BY <2>1, <2>4 DEF First
<1>2. CASE i \notin 1 .. Len(shown)
  <2>1. ~(shown' = shown /\ seen' = seen) /\ ~Decide
    <3>1. CASE Decide
      <4>1. PICK m : shown' = Append(shown, [at |-> 0, text |-> m]) BY <1>2, <3>1 DEF Decide, Show
      <4>2. shown'[i] = [at |-> 0, text |-> m] BY <1>2, <4>1, LastEntry
      <4>. QED BY <4>2
    <3>. QED BY <1>2, <3>1
  <2>2. PICK p \in 1 .. MaxLines, pass \in {"stream", "result"} : AddsLine(p, pass)
    BY <2>1, Added
  <2>3. shown'[i] = [at |-> p, text |-> written[p].text]
    BY <1>2, <2>2, LastEntry DEF AddsLine
  <2>4. KindAt(p) \in SemanticTypes BY <2>2, <2>3 DEF AddsLine, KindAt
  <2>5. First(p) BY <2>2, <2>4, AddedIsFirst
  <2>. QED BY <2>2, <2>3, <2>5 DEF AddsLine, First, IsEvent
<1>. QED BY <1>1, <1>2

LEMMA StepMarkedInv ==
  ASSUME StreamTypeOK, TurnInv, ShownInv, MarkedInv, [StreamNext]_streamVars
  PROVE  MarkedInv'
<1>. SUFFICES ASSUME NEW i \in 1 .. Len(shown'), shown'[i].at # 0
              PROVE  \E pass \in {"stream", "result"} : Keys(shown[i].at, pass)' \subseteq seen'
  BY DEF MarkedInv
<1>1. CASE i \in 1 .. Len(shown)
  <2>1. shown'[i] = shown[i] BY <1>1, Kept DEF Prefix
  <2>2. shown[i].at \in 1 .. Len(written) BY <1>1, <2>1, EntryInLine
  <2>3. PICK pass \in {"stream", "result"} : Keys(shown[i].at, pass) \subseteq seen
    BY <1>1, <2>1 DEF MarkedInv
  <2>4. Keys(shown[i].at, pass)' = Keys(shown[i].at, pass) BY <2>1, <2>2, LineKept
  <2>. QED BY <2>1, <2>3, <2>4, SeenGrows
<1>2. CASE i \notin 1 .. Len(shown)
  <2>1. CASE Decide
    <3>1. PICK m : shown' = Append(shown, [at |-> 0, text |-> m]) BY <1>2, <2>1 DEF Decide, Show
    <3>2. shown'[i] = [at |-> 0, text |-> m] BY <1>2, <3>1, LastEntry
    <3>. QED BY <3>2
  <2>2. ASSUME NEW p \in 1 .. MaxLines, NEW pass \in {"stream", "result"}, AddsLine(p, pass)
        PROVE  Keys(shown[i].at, pass)' \subseteq seen'
    <3>1. shown'[i] = [at |-> p, text |-> written[p].text] BY <1>2, <2>2, LastEntry DEF AddsLine
    <3>2. Keys(p, pass)' = Keys(p, pass) BY <2>2 DEF AddsLine, Keys, RunOf, IsEvent, KindAt
    <3>3. shown'[i].at = p BY <3>1
    <3>. QED BY <2>2, <3>2, <3>3 DEF AddsLine
  <2>. QED BY <1>2, <2>1, <2>2, Added
<1>. QED BY <1>1, <1>2

(* What a line adds is no news of before, but for lines without an id.     *)
Excused(at, text) == Anonymous(at) /\ (how = "resume" \/ Kind[text] \notin SemanticTypes)

LEMMA AddedIsNoNews ==
  ASSUME StreamTypeOK, TurnInv, ShownInv, TakenInv, FirstInv, MarkedInv,
         NEW p \in 1 .. MaxLines, NEW pass \in {"stream", "result"}, AddsLine(p, pass),
         NEW i \in 1 .. Len(shown),
         shown[i].at = p \/ (shown[i].text = written[p].text /\ KindAt(p) \in SemanticTypes)
  PROVE  Excused(shown[i].at, shown[i].text)
<1>1. turn # "over" /\ IsEvent(p) /\ IsNew(p, pass) BY DEF AddsLine
<1>2. shown[i].at \in 1 .. taken /\ shown[i].text = written[shown[i].at].text
      /\ IsEvent(shown[i].at)
  BY <1>1, EntryTypes DEF ShownInv, ShowsALine, StreamTypeOK
<1>3. shown[i].at = p
  <2>1. SUFFICES ASSUME shown[i].text = written[p].text, KindAt(p) \in SemanticTypes
                 PROVE  shown[i].at = p
    OBVIOUS
  <2>2. KindAt(shown[i].at) \in SemanticTypes BY <1>2, <2>1 DEF KindAt
  <2>. DEFINE q == shown[i].at
  <2>3. First(p) BY <2>1, AddedIsFirst
  <2>4. First(q) BY <1>2, <2>2 DEF FirstInv
  <2>5. q \in Nat /\ p \in Nat /\ q # 0 /\ p # 0 /\ written[q].text = written[p].text
    BY <1>2, <2>1 DEF StreamTypeOK
  <2>6. IsEvent(p) /\ IsEvent(q) BY <1>1, <1>2
  <2>. HIDE DEF q
  <2>7. ~(q < p)
    <3>1. SUFFICES ASSUME q < p PROVE FALSE OBVIOUS
    <3>2. q \in 1 .. p - 1 BY <2>5, <3>1
    <3>. QED BY <2>3, <2>5, <2>6, <3>2 DEF First
  <2>8. ~(p < q)
    <3>1. SUFFICES ASSUME p < q PROVE FALSE OBVIOUS
    <3>2. p \in 1 .. q - 1 BY <2>5, <3>1
    <3>. QED BY <2>4, <2>5, <2>6, <3>2 DEF First
  <2>. QED BY <2>5, <2>7, <2>8 DEF q
<1>4. PICK before \in {"stream", "result"} : Keys(p, before) \subseteq seen
  BY <1>3 DEF MarkedInv
<1>5. written[p].id = NoId
  <2>1. SUFFICES ASSUME written[p].id # NoId PROVE FALSE OBVIOUS
  <2>2. <<"delivery", KindAt(p), written[p].id>> \in Keys(p, before) \cap Keys(p, pass)
    BY <1>1, <2>1, KeysOf
  <2>. QED BY <1>1, <1>4, <2>2 DEF IsNew
<1>6. how = "resume" \/ KindAt(p) \notin SemanticTypes
  <2>1. SUFFICES ASSUME how = "start", KindAt(p) \in SemanticTypes PROVE FALSE
    BY DEF StreamTypeOK
  <2>2. RunOf(before) = RunOf(pass) BY <2>1 DEF RunOf
  <2>3. <<"semantic", KindAt(p), RunOf(pass), written[p].text>> \in Keys(p, before) \cap Keys(p, pass)
    BY <1>1, <2>1, <2>2, KeysOf
  <2>. QED BY <1>1, <1>4, <2>3 DEF IsNew
<1>. QED BY <1>2, <1>3, <1>5, <1>6 DEF Excused, Anonymous, KindAt

(* The message of the decision comes when no line scanned is an event, so  *)
(* that the first line taken is too long, if one was.                      *)
LEMMA MessageForNothing ==
  ASSUME StreamTypeOK, Normalized = {}, NEW q \in 1 .. taken
  PROVE  1 \in 1 .. taken /\ ~IsEvent(1)
<1>1. 1 \in 1 .. taken BY DEF StreamTypeOK
<1>2. Scanned = {}
  <2>1. SUFFICES ASSUME Scanned # {} PROVE FALSE OBVIOUS
  <2>2. PICK m \in Scanned : \A n \in Scanned : m <= n
    <3>1. Scanned \in SUBSET Nat BY DEF Scanned
    <3>. QED BY <2>1, <3>1, LeastOf
  <2>3. \A n \in Scanned : ~(n < m) BY <2>2 DEF Scanned
  <2>. QED BY <2>2, <2>3 DEF Normalized
<1>. QED BY <1>1, <1>2 DEF Scanned

LEMMA StepShownOnce ==
  ASSUME StreamTypeOK, TurnInv, ShownInv, TakenInv, FirstInv, MarkedInv, ShownOnce,
         [StreamNext]_streamVars
  PROVE  ShownOnce'
<1>. SUFFICES ASSUME NEW i \in 1 .. Len(shown'), NEW j \in 1 .. Len(shown'), i < j,
                     SameNews(i, j)',
                     ~Excused(shown[i].at, shown[i].text)'
              PROVE  shown'[j].at = 0 /\ \E p \in 1 .. taken' : ~IsEvent(p)'
  BY DEF ShownOnce, Excused
<1>1. Len(shown) \in Nat /\ Len(shown') \in Nat /\ taken \in Nat /\ taken' \in Nat
      /\ taken <= taken' /\ taken <= Len(written) /\ Len(written) \in Nat
  BY Kept, StepTypeOK DEF StreamTypeOK
<1>2. i \in 1 .. Len(shown)
  <2>1. Len(shown') <= Len(shown) + 1
    <3>1. shown' = shown \/ \E e : shown' = Append(shown, e)
      BY Added DEF AddsLine, Decide, Show
    <3>2. ASSUME NEW e, shown' = Append(shown, e) PROVE Len(shown') = Len(shown) + 1
      <4>. DEFINE Entries == [at : 0 .. MaxLines, text : Texts]
      <4>1. shown \in Seq(Entries) BY DEF StreamTypeOK
      <4>. HIDE DEF Entries
      <4>. QED BY <3>2, <4>1, AppendKeeps
    <3>. QED BY <1>1, <3>1, <3>2
  <2>. QED BY <1>1, <2>1
<1>3. shown'[i] = shown[i] BY <1>2, Kept DEF Prefix
<1>4. ~Excused(shown[i].at, shown[i].text)
  <2>1. CASE shown[i].at = 0 BY <2>1 DEF Excused, Anonymous
  <2>2. CASE shown[i].at # 0
    <3>1. shown[i].at \in 1 .. Len(written) BY <1>2, <2>2, EntryInLine
    <3>. QED BY <1>3, <3>1, LineKept, Kept DEF Excused, Anonymous
  <2>. QED BY <2>1, <2>2
<1>5. CASE j \in 1 .. Len(shown)
  <2>1. shown'[j] = shown[j] BY <1>5, Kept DEF Prefix
  <2>2. SameNews(i, j) BY <1>3, <2>1 DEF SameNews
  <2>3. shown[j].at = 0 /\ \E p \in 1 .. taken : ~IsEvent(p)
    BY <1>2, <1>4, <1>5, <2>2 DEF ShownOnce, Excused
  <2>4. PICK p \in 1 .. taken : ~IsEvent(p) BY <2>3
  <2>5. p \in 1 .. Len(written) /\ p \in 1 .. taken' BY <1>1
  <2>. QED BY <2>1, <2>3, <2>4, <2>5, LineKept
<1>6. CASE j \notin 1 .. Len(shown)
  <2>1. ASSUME NEW p \in 1 .. MaxLines, NEW pass \in {"stream", "result"}, AddsLine(p, pass)
        PROVE  FALSE
    <3>1. shown'[j] = [at |-> p, text |-> written[p].text] BY <1>6, <2>1, LastEntry DEF AddsLine
    <3>2. shown[i].at = p \/ (shown[i].text = written[p].text /\ KindAt(p) \in SemanticTypes)
      BY <1>3, <3>1 DEF SameNews, KindAt
    <3>. QED BY <1>2, <1>4, <2>1, <3>2, AddedIsNoNews
  <2>2. CASE Decide
    <3>1. PICK m : shown' = Append(shown, [at |-> 0, text |-> m]) /\ Normalized = {}
      BY <1>6, <2>2 DEF Decide, Show
    <3>2. shown'[j] = [at |-> 0, text |-> m] BY <1>6, <3>1, LastEntry
    <3>3. shown[i].at \in 1 .. taken
      BY <1>2, <2>2, EntryTypes DEF Decide, ShownInv, ShowsALine, StreamTypeOK
    <3>4. taken' = taken /\ written' = written BY <2>2 DEF Decide
    <3>5. 1 \in 1 .. taken /\ ~IsEvent(1) BY <3>1, <3>3, MessageForNothing
    <3>. QED BY <3>2, <3>4, <3>5 DEF IsEvent
  <2>. QED BY <1>6, <2>1, <2>2, Added
<1>. QED BY <1>5, <1>6

-----------------------------------------------------------------------------
(* The decision.  If one of the lines scanned is actionable, the first     *)
(* such line is no repetition of an earlier one, and so it is found.       *)
LEMMA ActionableIsFound ==
  ASSUME StreamTypeOK, NEW q \in Scanned, KindAt(q) \in ActionableTypes
  PROVE  Actionable # {}
<1>. DEFINE S == {p \in Scanned : KindAt(p) \in ActionableTypes}
<1>1. PICK m \in S : \A p \in S : m <= p
  <2>1. S \in SUBSET Nat /\ S # {} BY DEF Scanned
  <2>. HIDE DEF S
  <2>. QED BY <2>1, LeastOf
<1>2. ASSUME NEW p \in Scanned, p < m PROVE Keys(p, "result") \cap Keys(m, "result") = {}
  <2>1. p \notin S BY <1>1, <1>2 DEF Scanned
  <2>2. KindAt(p) # KindAt(m) BY <1>1, <2>1
  <2>. QED BY <2>2, SharedKey
<1>3. m \in Normalized BY <1>1, <1>2 DEF Normalized
<1>. QED BY <1>1, <1>3 DEF Actionable

LEMMA StepShownIsActedOn ==
  ASSUME StreamTypeOK, TurnInv, ShownInv, ShownIsActedOn, [StreamNext]_streamVars
  PROVE  ShownIsActedOn'
<1>. SUFFICES ASSUME outcome' = "quiet", \A p \in 1 .. taken' : IsEvent(p)',
                     NEW i \in 1 .. Len(shown')
              PROVE  Kind[shown'[i].text] \notin ActionableTypes
  BY DEF ShownIsActedOn
<1>1. CASE turn = "over"
  <2>1. outcome' = outcome /\ taken' = taken /\ shown' = shown /\ written' = written
    BY <1>1 DEF TurnInv, HandlerHasTheSession, StreamNext, ProviderNext, ReaderNext, HandlerNext,
      Showing, Shown, Writes, Exits, Fetch, PassOver, Take, EndOfOutput, WaitReturns, Joined,
      GraceExpires, TurnFails, TurnAccepted, Decide, SkipResult, ShowLine, ShowResult, LineShown,
      ResultShown
  <2>. QED BY <2>1 DEF ShownIsActedOn, IsEvent
<1>2. CASE turn # "over"
  <2>1. outcome = "none" BY <1>2 DEF TurnInv
  <2>2. Decide
    BY <2>1 DEF StreamNext, ProviderNext, ReaderNext, HandlerNext, Showing, Shown, Writes, Exits,
      Fetch, PassOver, Take, EndOfOutput, WaitReturns, Joined, GraceExpires, TurnFails, TurnAccepted,
      SkipResult, ShowLine, ShowResult, LineShown, ResultShown, Ends
  <2>3. \A p \in 1 .. taken : p \in Scanned BY <2>2 DEF Decide, Scanned, IsEvent, StreamTypeOK
  <2>4. Actionable = {}
    BY <2>2 DEF Decide, Ends, Actionable
  <2>5. ASSUME NEW j \in 1 .. Len(shown) PROVE Kind[shown[j].text] \notin ActionableTypes
    <3>1. shown[j].at \in 1 .. taken /\ shown[j].text = written[shown[j].at].text
      BY <1>2, EntryTypes DEF ShownInv, ShowsALine, StreamTypeOK
    <3>. QED BY <2>3, <2>4, <3>1, ActionableIsFound DEF KindAt
  <2>6. CASE shown' = shown BY <2>5, <2>6
  <2>7. CASE shown' # shown
    <3>1. PICK m \in LastMessage : /\ Kind[m] \notin ActionableTypes
                                   /\ shown' = Append(shown, [at |-> 0, text |-> m])
      BY <2>2, <2>7 DEF Decide, Ends, Show
    <3>2. i \in 1 .. Len(shown) \/ shown'[i] = [at |-> 0, text |-> m] BY <3>1, LastEntry
    <3>3. i \in 1 .. Len(shown) => shown'[i] = shown[i] BY Kept DEF Prefix
    <3>. QED BY <2>5, <3>1, <3>2, <3>3
  <2>. QED BY <2>6, <2>7
<1>. QED BY <1>1, <1>2

-----------------------------------------------------------------------------
(* The theorems.                                                           *)
LEMMA InitStreamInv == StreamInit => StreamInv
<1>. SUFFICES ASSUME StreamInit PROVE StreamInv OBVIOUS
<1>1. StreamTypeOK BY InitTypeOK
<1>2. Len(shown) = 0 /\ Len(written) = 0 BY DEF StreamInit
<1>3. TurnInv /\ DrainInv BY DEF StreamInit, TurnInv, HandlerHasTheSession, DrainInv
<1>4. ShownInv /\ SeenInv /\ UniqueInv /\ ToldInv
  BY <1>2 DEF StreamInit, ShownInv, SeenInv, UniqueInv, ToldInv
<1>5. TakenInv /\ FirstInv /\ MarkedInv BY <1>2 DEF StreamInit, TakenInv, FirstInv, MarkedInv
<1>6. ShownOnce /\ ShownIsActedOn BY <1>2 DEF StreamInit, ShownOnce, ShownIsActedOn
<1>. QED BY <1>1, <1>3, <1>4, <1>5, <1>6 DEF StreamInv

LEMMA StepStreamInv == StreamInv /\ [StreamNext]_streamVars => StreamInv'
<1>. SUFFICES ASSUME StreamInv, [StreamNext]_streamVars PROVE StreamInv' OBVIOUS
<1>1. StreamTypeOK' /\ TurnInv' /\ DrainInv'
  BY StepTypeOK, StepTurnInv, StepDrainInv DEF StreamInv
<1>2. ShownInv' /\ SeenInv' /\ UniqueInv'
  BY StepShownInv, StepSeenInv, StepUniqueInv DEF StreamInv
<1>3. ToldInv' /\ ShownIsActedOn' BY StepToldInv, StepShownIsActedOn DEF StreamInv
<1>4. TakenInv' /\ FirstInv' /\ MarkedInv'
  BY StepTakenInv, StepFirstInv, StepMarkedInv DEF StreamInv
<1>5. ShownOnce' BY StepShownOnce DEF StreamInv
<1>. QED BY <1>1, <1>2, <1>3, <1>4, <1>5 DEF StreamInv

(* What is lost was never taken, and that happens only to what the pty     *)
(* held when the 100 ms had run out.                                       *)
LEMMA OnlyTheTailIsLost == StreamInv => NothingWrittenIsLost
<1>. SUFFICES ASSUME StreamInv, outcome # "none",
                     NEW p \in 1 .. Len(written), IsEvent(p), ~(late /\ taken < p)
              PROVE  Told(p)
  BY DEF NothingWrittenIsLost, Told
<1>1. reader = "done" BY DEF StreamInv, TurnInv, HandlerHasTheSession
<1>2. taken \in Nat /\ Len(written) \in Nat BY DEF StreamInv, StreamTypeOK
<1>3. p \in 1 .. taken BY <1>1, <1>2 DEF StreamInv, DrainInv
<1>. QED BY <1>3 DEF StreamInv, ToldInv

(* The inductive invariant holds throughout a streamed turn (Runner.run,   *)
(* streamObserver, deliverSessionResult).                                  *)
THEOREM StreamInvariance == StreamSpec => []StreamInv
<1>. QED BY InitStreamInv, StepStreamInv, PTL DEF StreamSpec

(* Types, and the bounds of every position, for lines of any kind and any  *)
(* number of them.                                                         *)
THEOREM StreamTypeCorrect == StreamSpec => []StreamTypeOK
<1>1. StreamInv => StreamTypeOK BY DEF StreamInv
<1>. QED BY <1>1, StreamInvariance, PTL

(* The handler and the reader never have the session at the same time: the *)
(* channel that Runner.run waits on is the only thing that keeps them      *)
(* apart, and it does so on each path to the result.                       *)
THEOREM OneAtATime == StreamSpec => []HandlerHasTheSession
<1>1. StreamInv => HandlerHasTheSession BY DEF StreamInv, TurnInv
<1>. QED BY <1>1, StreamInvariance, PTL

(* When a turn is delivered everything the provider wrote is in the topic, *)
(* but for the tail that the close of the pty cut off: what the deduper    *)
(* suppresses has been said (Deduper.MarkIfNew, copyOutput).               *)
THEOREM SaysEverything == StreamSpec => []NothingWrittenIsLost
<1>. QED BY OnlyTheTailIsLost, StreamInvariance, PTL

(* What was streamed is not shown again with the result, but for lines     *)
(* without an item id and a message behind a line too long: the deduper    *)
(* knows every other line again, whichever pass meets it first             *)
(* (Deduper.MarkIfNew, normalizedCodexTranscriptEvents).                   *)
THEOREM ShowsOnce == StreamSpec => []ShownOnce
<1>1. StreamInv => ShownOnce BY DEF StreamInv
<1>. QED BY <1>1, StreamInvariance, PTL

(* A turn that ends quietly has shown nothing that waits for an answer:    *)
(* what the second pass leaves out as a repetition never hides the first   *)
(* question from firstActionableEvent.                                     *)
THEOREM ActsOnWhatItShows == StreamSpec => []ShownIsActedOn
<1>1. StreamInv => ShownIsActedOn BY DEF StreamInv
<1>. QED BY <1>1, StreamInvariance, PTL
=============================================================================
