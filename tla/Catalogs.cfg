CONSTANTS
  Trucks = {p}
  Trailers = {q}
  ChassisEndsVin = {p}
  RegistryRows <- PlateAndVin
  Readings <- OneMark
  Named = {p}
  MaxCards = 3
  Writers = {x1, x2}
  LastDay = 1
  NoValue = NoValue
  Repairs = {r}
  Vehicles = {v}
  Placeholder = Placeholder
  ServiceIds = {s1, s2}
  CatalogNames = {n}
  OtherNames = {m}
  Clients = {x1, x2}
  None = NoValue
  firstKey = firstKey
  secondKey = secondKey
  Workbook <- TwoGroups
  NeedsService = {secondKey}
  ImportLimits = {1, 9}
  Imports = {x1, x2}
  RowIds = {s1, s2, s3}
  Cards = {v, x1, x2}
  FirstCard = v
  Nothing = NoValue
SPECIFICATION CatalogsSpec
SYMMETRY Symmetry
INVARIANTS CatalogConsistent FleetAgrees ImportedOnce
CHECK_DEADLOCK FALSE
