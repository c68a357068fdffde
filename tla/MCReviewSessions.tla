--------------------------- MODULE MCReviewSessions ---------------------------
(* TLC instances of ReviewSessions. *)
EXTENDS ReviewSessions
=============================================================================
