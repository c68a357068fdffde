----------------------------- MODULE MCOcrJobs -----------------------------
(* TLC instances of OcrJobs. *)
EXTENDS OcrJobs, TLC

Symmetry == Permutations(Documents) \cup Permutations(Workers) \cup Permutations(Requests)
=============================================================================
