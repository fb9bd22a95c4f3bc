----------------------------- MODULE PendingSlot -----------------------------
(***************************************************************************)
(* What the exchange journal of one peer promises its callers: at most one *)
(* signed request is outstanding, no request is signed earlier than one    *)
(* already dispatched, and an outstanding request leaves the slot only by  *)
(* its authenticated answer or by a decision about exactly that request.   *)
(* Crashes, restarts and failed writes are stuttering steps.               *)
(***************************************************************************)
EXTENDS Integers

CONSTANTS ReadOps, MutationOps, Bodies, MaxTime, None

Request == [op : ReadOps \cup MutationOps, body : Bodies, time : 1 .. MaxTime]

VARIABLES
  slot,     \* the outstanding request, or None
  mark      \* the latest signing time dispatched

Init == slot = None /\ mark = 0

Dispatch(r) ==
  /\ slot = None /\ r.time >= mark
  /\ slot' = r /\ mark' = r.time

Answer ==
  /\ slot # None
  /\ slot' = None /\ UNCHANGED mark

AbandonRead ==
  /\ slot # None /\ slot.op \in ReadOps
  /\ slot' = None /\ UNCHANGED mark

\* A decision may rest on a later request of a recovery journal: no request is
\* signed before that one either.
Reconcile ==
  /\ slot # None /\ slot.op \in MutationOps
  /\ slot' = None /\ mark' \in mark .. MaxTime

Next == (\E r \in Request : Dispatch(r)) \/ Answer \/ AbandonRead \/ Reconcile

Spec == Init /\ [][Next]_<<slot, mark>>
=============================================================================
