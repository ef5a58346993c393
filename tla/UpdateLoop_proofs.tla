-------------------------- MODULE UpdateLoop_proofs --------------------------
(***************************************************************************)
(* Safety of the poll loop for every set of update ids: its type           *)
(* correctness, that no update is lost, that a restart repeats at most one *)
(* update, that handling is in order, and that the loop implements         *)
(* UpdateDelivery.                                                         *)
(***************************************************************************)
EXTENDS UpdateLoop, TLAPS

(* The offset Run holds agrees with the disk wherever no update is in      *)
(* hand, and is just past the update in hand otherwise.                    *)
OffsetInv ==
  /\ phase \in {"poll", "next"} => offset = cursor
  /\ phase \in {"handling", "saving"} => offset = current + 1

(* The batch and the update in hand are the oldest updates beyond the      *)
(* cursor: nothing that is still to be handled is older.                   *)
BatchInv ==
  /\ \A u \in batch : cursor <= u
  /\ \A u \in batch, x \in arrived : cursor <= x /\ x < u =>
        x \in batch \/ (phase \in {"handling", "saving"} /\ x = current)
  /\ phase \in {"handling", "saving"} =>
        /\ cursor <= current
        /\ \A u \in batch : current < u
        /\ \A x \in arrived : x < current => x < cursor
  /\ phase \in {"down", "poll"} => batch = {}

(* The cursor passes only finished updates, and effects beyond it belong   *)
(* to the oldest update beyond it.                                         *)
DoneInv ==
  /\ cursor = 0 \/ cursor - 1 \in arrived
  /\ \A u \in arrived : u < cursor => u \in completed
  /\ phase = "saving" => current \in completed
  /\ \A u \in acted \cup completed, x \in arrived :
        cursor <= u /\ x < u => x < cursor

(* The inductive invariant.                                                *)
IInv == TypeOK /\ OffsetInv /\ BatchInv /\ DoneInv /\ ConfirmedIsDurable

USE UpdateIdsAreNaturals

LEMMA InitIInv == Init => IInv
BY DEF Init, IInv, TypeOK, OffsetInv, BatchInv, DoneInv, ConfirmedIsDurable, Phases

(* Every step preserves the inductive invariant.                           *)
LEMMA StepIInv == IInv /\ [Next]_vars => IInv'
<1> SUFFICES ASSUME IInv, [Next]_vars
             PROVE  IInv'
  OBVIOUS
<1> USE DEF IInv, TypeOK, OffsetInv, BatchInv, DoneInv, ConfirmedIsDurable, Phases,
            process, history
<1>1. ASSUME NEW u \in UpdateIds, Arrive(u) PROVE IInv'
  BY <1>1 DEF Arrive
<1>2. ASSUME NEW u \in UpdateIds, HandleNext(u) PROVE IInv'
  BY <1>2 DEF HandleNext
<1>3. CASE Start
  BY <1>3 DEF Start
<1>4. CASE Poll
  <2>1. PICK S \in (SUBSET arrived) \ {{}} : IsAnswer(S, offset) /\ batch' = S
    BY <1>4 DEF Poll
  <2>2. confirmed' = ConfirmedBy(offset) /\ phase' = "next" /\ phase = "poll"
        /\ UNCHANGED <<arrived, cursor, offset, current, history>>
    BY <1>4 DEF Poll
  <2>3. ConfirmedBy(offset) = cursor
    BY <2>2 DEF ConfirmedBy
  <2> QED
    BY <2>1, <2>2, <2>3 DEF IsAnswer
<1>5. CASE PollEmpty
  BY <1>5 DEF PollEmpty, ConfirmedBy
<1>6. CASE HandlerActs
  BY <1>6 DEF HandlerActs
<1>7. CASE HandlerReturns
  BY <1>7 DEF HandlerReturns
<1>8. CASE SaveCursor
  <2>1. phase = "saving" /\ cursor' = current + 1 /\ offset' = current + 1
        /\ UNCHANGED <<arrived, confirmed, batch, acted, completed>>
    BY <1>8 DEF SaveCursor
  <2>2. TypeOK' /\ OffsetInv' /\ BatchInv'
    BY <1>8, <2>1 DEF SaveCursor
  <2>3. ASSUME NEW u \in arrived, u < cursor' PROVE u \in completed
    BY <2>1, <2>3
  <2>4. DoneInv' /\ ConfirmedIsDurable'
    BY <1>8, <2>1, <2>3 DEF SaveCursor
  <2> QED
    BY <2>2, <2>4
<1>9. CASE HandlerFails \/ SaveCursorFails \/ Stop \/ Crash
  <2>1. Exit
    BY <1>9 DEF HandlerFails, SaveCursorFails, Stop, Crash
  <2>2. TypeOK' /\ OffsetInv' /\ BatchInv'
    BY <2>1 DEF Exit
  <2>3. DoneInv' /\ ConfirmedIsDurable'
    BY <2>1 DEF Exit
  <2> QED
    BY <2>2, <2>3
<1>10. CASE UNCHANGED vars
  BY <1>10 DEF vars
<1> QED
  BY <1>1, <1>2, <1>3, <1>4, <1>5, <1>6, <1>7, <1>8, <1>9, <1>10 DEF Next

(* The loop's state invariant, for every set of ids and any number of      *)
(* restarts: the offset, the batch and the cursor file never disagree.     *)
THEOREM Invariance == Spec => []IInv
<1>1. QED
  BY InitIInv, StepIInv, PTL DEF Spec

(* Type correctness of the poll loop.                                      *)
THEOREM TypeCorrect == Spec => []TypeOK
<1>1. IInv => TypeOK
  BY DEF IInv
<1>2. QED
  BY <1>1, Invariance, PTL

(* Telegram is never told to forget an update whose completion is not yet  *)
(* on disk.                                                                *)
THEOREM NeverConfirmsEarly == Spec => []ConfirmedIsDurable
<1>1. IInv => ConfirmedIsDurable
  BY DEF IInv
<1>2. QED
  BY <1>1, Invariance, PTL

(* No update is lost: whatever Telegram forgot and whatever the cursor     *)
(* passed was handled to the end.                                          *)
THEOREM LosesNothing == Spec => []NothingLost
<1>1. IInv => NothingLost
  <2> SUFFICES ASSUME IInv, NEW u \in arrived, u < confirmed \/ u < cursor
               PROVE  u \in completed
    BY DEF NothingLost
  <2>1. u \in Nat /\ cursor \in Nat /\ confirmed \in Nat /\ confirmed <= cursor
    BY DEF IInv, TypeOK, ConfirmedIsDurable
  <2>2. u < cursor
    BY <2>1
  <2> QED
    BY <2>2 DEF IInv, DoneInv
<1>2. QED
  BY <1>1, Invariance, PTL

(* A restart repeats at most one update.                                   *)
THEOREM RepeatsAtMostOne == Spec => []ReplayWindow
<1>1. IInv => ReplayWindow
  <2> SUFFICES ASSUME IInv, NEW u \in acted \cup completed,
                      NEW v \in acted \cup completed,
                      cursor <= u, cursor <= v
               PROVE  u = v
    BY DEF ReplayWindow
  <2>1. u \in arrived /\ v \in arrived
    BY DEF IInv, TypeOK
  <2>2. u \in Nat /\ v \in Nat /\ cursor \in Nat
    BY <2>1 DEF IInv, TypeOK
  <2>3. ~(v < u) /\ ~(u < v)
    BY <2>1, <2>2 DEF IInv, DoneInv
  <2> QED
    BY <2>2, <2>3
<1>2. QED
  BY <1>1, Invariance, PTL

(* Handling is in order and never goes back behind the cursor: the only    *)
(* step that enters HandleUpdate takes the oldest update that is not done. *)
THEOREM HandlesInOrder == Spec => InOrder
<1>1. ASSUME IInv, [Next]_vars
      PROVE  [phase' = "handling" /\ phase # "handling" =>
                /\ cursor <= current'
                /\ \A x \in arrived : x < current' => x \in completed]_vars
  <2> SUFFICES ASSUME phase' = "handling", phase # "handling"
               PROVE  /\ cursor <= current'
                      /\ \A x \in arrived : x < current' => x \in completed
    OBVIOUS
  <2>1. PICK u \in UpdateIds : HandleNext(u)
    BY <1>1 DEF Next, Arrive, Start, Poll, PollEmpty, HandlerActs, HandlerReturns,
                HandlerFails, SaveCursor, SaveCursorFails, Stop, Crash, Exit,
                vars, process
  <2>2. /\ u \in batch /\ current' = u /\ phase = "next"
        /\ \A x \in batch : u <= x
    BY <2>1 DEF HandleNext
  <2>3. cursor <= u
    BY <1>1, <2>2 DEF IInv, BatchInv
  <2>4. ASSUME NEW x \in arrived, x < u PROVE x \in completed
    <3>1. x \in Nat /\ u \in Nat /\ cursor \in Nat
      BY <1>1, <2>2 DEF IInv, TypeOK
    <3>2. x \notin batch
      BY <2>2, <2>4, <3>1
    <3>3. x < cursor
      BY <1>1, <2>2, <2>4, <3>1, <3>2 DEF IInv, BatchInv
    <3> QED
      BY <1>1, <3>3 DEF IInv, DoneInv
  <2> QED
    BY <2>2, <2>3, <2>4
<1>2. QED
  BY <1>1, Invariance, PTL DEF Spec, InOrder

(* The update being handled, as UpdateDelivery sees it.                    *)
activeBar == IF phase \in {"handling", "saving"} THEN {current} ELSE {}

(* Every step of the loop is a step of in-order at-least-once delivery or  *)
(* leaves its state alone.                                                 *)
LEMMA StepRefines == IInv /\ [Next]_vars => [Delivery!Next]_(Delivery!vars)
<1> SUFFICES ASSUME IInv, [Next]_vars
             PROVE  Delivery!Next \/ UNCHANGED <<arrived, cursor, activeBar>>
  BY DEF Delivery!vars, activeBar
<1> USE DEF activeBar
<1>1. ASSUME NEW u \in UpdateIds, Arrive(u) PROVE Delivery!Next
  BY <1>1 DEF Arrive, Delivery!Next, Delivery!Arrive, process
<1>2. ASSUME NEW u \in UpdateIds, HandleNext(u) PROVE Delivery!Next
  <2>1. u \in batch /\ batch \subseteq arrived /\ phase = "next" /\ current' = u
        /\ (\A x \in batch : u <= x) /\ phase' = "handling"
        /\ UNCHANGED <<arrived, cursor>>
    BY <1>2 DEF HandleNext, IInv, TypeOK
  <2>2. ASSUME NEW x \in arrived, ~(x < cursor) PROVE u <= x
    <3>1. x \in Nat /\ u \in Nat /\ cursor \in Nat
      BY <2>1 DEF IInv, TypeOK
    <3> QED
      BY <2>1, <2>2, <3>1 DEF IInv, BatchInv
  <2>3. cursor <= u
    BY <2>1 DEF IInv, BatchInv
  <2>4. Delivery!Deliver(u)
    BY <2>1, <2>2, <2>3 DEF Delivery!Deliver
  <2> QED
    BY <2>4 DEF Delivery!Next
<1>3. CASE Start
  BY <1>3 DEF Start
<1>4. CASE Poll
  BY <1>4 DEF Poll
<1>5. CASE PollEmpty
  BY <1>5 DEF PollEmpty, process
<1>6. CASE HandlerActs
  BY <1>6 DEF HandlerActs, process
<1>7. CASE HandlerReturns
  BY <1>7 DEF HandlerReturns
<1>8. CASE SaveCursor
  <2>1. current \in UpdateIds /\ phase = "saving" /\ phase' \notin {"handling", "saving"}
    BY <1>8 DEF SaveCursor, IInv, TypeOK
  <2>2. cursor' = current + 1 /\ arrived' = arrived
    BY <1>8 DEF SaveCursor, IInv, OffsetInv
  <2>3. Delivery!Acknowledge(current)
    BY <2>1, <2>2 DEF Delivery!Acknowledge
  <2> QED
    BY <2>1, <2>3 DEF Delivery!Next
<1>9. CASE HandlerFails \/ SaveCursorFails \/ Stop \/ Crash
  <2>1. phase' = "down" /\ UNCHANGED <<arrived, cursor>>
    BY <1>9 DEF HandlerFails, SaveCursorFails, Stop, Crash, Exit
  <2> QED
    BY <2>1 DEF Delivery!Next, Delivery!Interrupt
<1>10. CASE UNCHANGED vars
  BY <1>10 DEF vars, process
<1> QED
  BY <1>1, <1>2, <1>3, <1>4, <1>5, <1>6, <1>7, <1>8, <1>9, <1>10 DEF Next

(* The poll loop implements in-order, at-least-once delivery, with the     *)
(* cursor file as the acknowledgement.                                     *)
THEOREM ImplementsDelivery == Spec => DeliversAtLeastOnce
<1>1. Init => Delivery!Init
  BY DEF Init, Delivery!Init
<1>2. QED
  BY <1>1, StepRefines, Invariance, PTL DEF Spec, DeliversAtLeastOnce, Delivery!Spec

=============================================================================
