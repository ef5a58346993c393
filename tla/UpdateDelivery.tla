--------------------------- MODULE UpdateDelivery ---------------------------
(***************************************************************************)
(* What vibegram's poll loop promises about Telegram updates, with no      *)
(* process, batch or file in sight: updates are handled one at a time, in  *)
(* the order they arrived; an update is acknowledged only by the handling  *)
(* that finished it; and an interrupted handling is simply started again.  *)
(* UpdateLoop implements this specification.                               *)
(***************************************************************************)
EXTENDS Naturals

CONSTANT UpdateIds

VARIABLES
  arrived,   \* ids of the updates users have caused so far
  acked,     \* every arrived update below this id is acknowledged
  active     \* the update being handled: {} or {u}

vars == <<arrived, acked, active>>

Init ==
  /\ arrived = {}
  /\ acked = 0
  /\ active = {}

(* Telegram numbers updates upwards; ids may be skipped.                   *)
Arrive(u) ==
  /\ \A x \in arrived : x < u
  /\ arrived' = arrived \cup {u}
  /\ UNCHANGED <<acked, active>>

(* Handling starts with the oldest update that is not acknowledged.        *)
Deliver(u) ==
  /\ active = {}
  /\ u \in arrived
  /\ acked <= u
  /\ \A x \in arrived : x < acked \/ u <= x
  /\ active' = {u}
  /\ UNCHANGED <<arrived, acked>>

Acknowledge(u) ==
  /\ active = {u}
  /\ acked' = u + 1
  /\ active' = {}
  /\ UNCHANGED arrived

(* The handling is abandoned; nothing is acknowledged.                     *)
Interrupt ==
  /\ active # {}
  /\ active' = {}
  /\ UNCHANGED <<arrived, acked>>

Next ==
  \/ \E u \in UpdateIds : Arrive(u) \/ Deliver(u) \/ Acknowledge(u)
  \/ Interrupt

Spec == Init /\ [][Next]_vars

=============================================================================
