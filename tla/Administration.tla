---------------------------- MODULE Administration ----------------------------
(***************************************************************************)
(* Four parts of the administration, one per behaviour: they share no       *)
(* state, and every behaviour picks the part that it is about.              *)
(***************************************************************************)
EXTENDS Accounts, VehicleAssignments, RateLimiter, LaborNorms

VARIABLE part  \* the labor norms have two names, for an instance to bound them in two ways

administrationVars == <<part, accountVars, assignmentVars, limiterVars, laborVars>>

AdministrationInit ==
  /\ part \in {"accounts", "assignments", "limiter", "norm", "catalogue"}
  /\ AccountsInit
  /\ AssignmentsInit
  /\ LimiterInit
  /\ LaborInit

AdministrationNext ==
  /\ UNCHANGED part
  /\ \/ part = "accounts" /\ AccountsNext /\ UNCHANGED <<assignmentVars, limiterVars, laborVars>>
     \/ part = "assignments" /\ AssignmentsNext /\ UNCHANGED <<accountVars, limiterVars, laborVars>>
     \/ part = "limiter" /\ LimiterNext /\ UNCHANGED <<accountVars, assignmentVars, laborVars>>
     \/ /\ part \in {"norm", "catalogue"} /\ LaborNext
        /\ UNCHANGED <<accountVars, assignmentVars, limiterVars>>

AdministrationSpec == AdministrationInit /\ [][AdministrationNext]_administrationVars

\* The types of the four parts.
AdministrationTypeOK == AccountsTypeOK /\ AssignmentsTypeOK /\ LimiterTypeOK /\ LaborTypeOK
=============================================================================
