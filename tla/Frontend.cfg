SPECIFICATION FrontendSpec
CONSTANTS
  PanelNames <- MCPanels
  MaxSessions = 2
  MaxActs <- MCActs
  Selections = {0, 1, 2}
  Repairs = {"r1", "r2"}
  Docs = {"d1", "d2"}
  OwnerOf <- MCOwner
  DefaultOf <- MCDefault
  Lists = {{}, {"d1", "d2"}}
  Surfaces = {"documents", "repairDocuments", "editing", "actions", "review"}
  MaxClicks = 3
  MaxRefreshes = 1
INVARIANTS PanelsHold PageAgrees
PROPERTIES NoPullBack Settles
CHECK_DEADLOCK FALSE
