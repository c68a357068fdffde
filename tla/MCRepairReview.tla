---------------------------- MODULE MCRepairReview ----------------------------
(* TLC instances of RepairReview. *)
EXTENDS RepairReview
=============================================================================
