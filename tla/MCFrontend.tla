----------------------------- MODULE MCFrontend -----------------------------
(* The frontend: one of its panels, or the repair page, in each behaviour.    *)
EXTENDS Panels, RepairPage

VARIABLE part

\* Every panel; the journal of the imports, three loads at once, with less to do.
MCPanels == DOMAIN Hooks
MCActs == [p \in MCPanels |-> IF p = "imports" THEN 2 ELSE 3]

\* A repair with two documents and one with none.
MCOwner == [d \in {"d1", "d2"} |-> "r1"]
MCDefault == [r \in {"r1", "r2"} |-> IF r = "r1" THEN "d1" ELSE Unset]

FrontendInit ==
  /\ part \in {"panels", "page"}
  /\ InitPanels /\ InitPage
  /\ part = "panels" => surface = "documents" /\ listed = {}
  /\ part = "page" => panel = "auth"

FrontendNext ==
  /\ UNCHANGED part
  /\ \/ part = "panels" /\ PanelStep /\ UNCHANGED pageVars
     \/ part = "page" /\ PageStep /\ UNCHANGED panelVars

\* Only the page is asked to settle.
FrontendSpec ==
  FrontendInit /\ [][FrontendNext]_<<part, panelVars, pageVars>> /\ PageFairness
=============================================================================
