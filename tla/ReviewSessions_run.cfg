SPECIFICATION SessionSpec
CONSTANTS
  MaxDocuments = 2
  UploadKinds = {"order"}
  Findings = {"vehicle"}
  Recognitions = {"most"}
  EditStatuses = {}
  PatchStatuses = {}
  SlowHandlers = {"run"}
INVARIANT PrimaryAgrees
