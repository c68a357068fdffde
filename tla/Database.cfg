CONSTANTS
  Dialects = {"postgresql", "sqlite"}
  Stops = {0, 5, 11, 12, 13, 14, 16, 17, 20}
  Rests = {4, 5, 11, 13, 16, 20}
  MaxRows = 2
  Engines = {"postgresql", "sqlite"}
  Scopes = {"dongfeng", "other"}
  DefaultScope = "dongfeng"
  Names = {"first", "second"}
  DefaultName = "first"
  Codes = {"c", "d"}
  Users = {"admin", "employee"}
  Admins = {"admin"}
  Vehicles = {"first", "second"}
  Services = {"service"}
  Repairs = {"shown", "other"}
  Docs = {1, 2, 3}
  Conflicts = {"conflict"}
  Nothing = Nothing
SPECIFICATION DatabaseSpec
INVARIANTS ReadsAgree SchemaFollowsRevision RowsMigrate
PROPERTY UpgradesKeepRows
CHECK_DEADLOCK FALSE
