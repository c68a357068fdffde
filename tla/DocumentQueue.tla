--------------------------- MODULE DocumentQueue ---------------------------
(***************************************************************************)
(* What the OCR queue promises about a document, without jobs, rows or     *)
(* sessions: it is asked for, then processed once by one runner, then done *)
(* with until it is asked for again.                                       *)
(***************************************************************************)
CONSTANT Documents

VARIABLE phase   \* "idle", "waiting" or "running", for each document

Init == phase = [d \in Documents |-> "idle"]

Ask(d)    == phase[d] = "idle"    /\ phase' = [phase EXCEPT ![d] = "waiting"]
Start(d)  == phase[d] = "waiting" /\ phase' = [phase EXCEPT ![d] = "running"]
Refuse(d) == phase[d] = "waiting" /\ phase' = [phase EXCEPT ![d] = "idle"]
Finish(d) == phase[d] = "running" /\ phase' = [phase EXCEPT ![d] = "idle"]

(* Asked for and started in one step, by the batch script. *)
Run(d)    == phase[d] = "idle"    /\ phase' = [phase EXCEPT ![d] = "running"]

Next == \E d \in Documents : Ask(d) \/ Start(d) \/ Refuse(d) \/ Finish(d) \/ Run(d)

Spec == Init /\ [][Next]_phase
=============================================================================
