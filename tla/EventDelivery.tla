--------------------------- MODULE EventDelivery ---------------------------
(***************************************************************************)
(* What the transactional outbox promises the services that emit through   *)
(* it: an event that was recorded is handled at least once, and it is      *)
(* acknowledged (processedAt is set) only after a handler ran to its end.  *)
(* How the event travels -- the queue, its retries, the sweeper -- is no   *)
(* part of the promise; Outbox is shown to implement it.                   *)
(***************************************************************************)
CONSTANT Event

VARIABLE stage

Stage == {"unborn", "recorded", "handled", "processed"}

TypeOK == stage \in [Event -> Stage]

Init == stage = [e \in Event |-> "unborn"]

Move(e, from, to) ==
    /\ stage[e] = from
    /\ stage' = [stage EXCEPT ![e] = to]

Record(e)      == Move(e, "unborn", "recorded")
\* Handling an event again leaves the stage as it is: a stuttering step.
Handle(e)      == Move(e, "recorded", "handled")
Acknowledge(e) == Move(e, "handled", "processed")

Next == \E e \in Event : Record(e) \/ Handle(e) \/ Acknowledge(e)

Spec == Init /\ [][Next]_stage
=============================================================================
