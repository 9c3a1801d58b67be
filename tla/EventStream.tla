---------------------------- MODULE EventStream ----------------------------
(***************************************************************************)
(* What the transactional outbox promises (apps/worker/src/stages/         *)
(* outbox.ts: "at-least-once emission"): an event is dispatched only once  *)
(* the transaction that wrote it has committed, and every committed event  *)
(* is dispatched in the end.  Dispatching an event again is a step of the  *)
(* program that this specification does not see.                           *)
(***************************************************************************)
CONSTANT Events

VARIABLES
    committed,      \* events whose transaction has committed
    dispatched      \* events dispatched at least once

Init ==
    /\ committed = {}
    /\ dispatched = {}

CommitEvent(e) ==
    /\ e \notin committed
    /\ committed' = committed \union {e}
    /\ UNCHANGED dispatched

Dispatch(e) ==
    /\ e \in committed
    /\ dispatched' = dispatched \union {e}
    /\ UNCHANGED committed

Next == \E e \in Events : CommitEvent(e) \/ Dispatch(e)

Safety == Init /\ [][Next]_<<committed, dispatched>>

Spec == Safety /\ \A e \in Events : WF_<<committed, dispatched>>(Dispatch(e))
=============================================================================
