CONSTANTS
  Users = {a, b}
  BootAdmin = a
  Links = {x1, x2}
  Requests = {r1, r2}
  Nobody = Nobody
  EditForms <- SingleEdits
  Employees = {u}
  Fleet = {v}
  Slots = {x1, x2}
  Editors = {r1, r2}
  LastDay = 3
  NoValue = NoValue
  Attempts = {1, 2, 3}
  Addresses = {p}
  Logins = {n}
  AddressLimit = 2
  LoginLimit = 1
  Window = 3
  Second = 2
  MaxTime = 4
  Scopes = {x1, x2}
  NormIds = {n1, n2}
  firstNorm = n1
  Codes = {k}
  Labels = {own, new}
  OwnLabel = own
  NoLabel = NoValue
  Curators = {r1, r2}
  Offered = {NoValue, new}
  Files <- SingleFile
SPECIFICATION BoundedSpec
SYMMETRY Symmetry
INVARIANTS AdministrationTypeOK AdminRemains RecoveryIsSafe AssignmentsHold WindowHolds
PROPERTY NormsFollowCatalogues
CHECK_DEADLOCK FALSE
