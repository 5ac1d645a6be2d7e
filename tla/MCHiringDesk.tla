---------------------------- MODULE MCHiringDesk ----------------------------
(* HiringDesk on small instances: one or two applications, two requests. *)
EXTENDS HiringDesk, TLC

Symmetric == Permutations(Application) \cup Permutations(Req)
=============================================================================
