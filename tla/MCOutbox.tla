------------------------------ MODULE MCOutbox ------------------------------
(* Outbox on a small instance: two rows, one or two processor slots. *)
EXTENDS Outbox, TLC

Symmetric == Permutations(Event) \cup Permutations(Worker)
=============================================================================
